---- MODULE Spec2Model ----
(***************************************************************************)
(* State machine of the EC2 instance manager: the event loop of main.rs,   *)
(* the application state of app.rs, the background tasks the loop spawns   *)
(* and the bounded event channel they report through.                      *)
(*                                                                         *)
(* Conventions.  A Rust String is a sequence of one-character strings; a   *)
(* literal fragment of a format string is kept as one token, so format!    *)
(* is concatenation.  Option<T> is a sequence of length at most one:       *)
(* None is <<>> and Some(x) is <<x>>.  A HashMap is a function whose       *)
(* DOMAIN is the key set.  An f64 price is a natural number.               *)
(***************************************************************************)
EXTENDS Integers, Sequences, FiniteSets, TLC

VARIABLES
    state,               \* app.state : AppState
    should_quit,         \* app.should_quit
    instances,           \* app.instances
    filtered_instances,  \* app.filtered_instances
    list_selected,       \* app.list_state.selected()
    filter,              \* app.filter
    type_prices,         \* app.type_prices
    instance_types,      \* app.instance_types
    pricing_client,      \* app.pricing_client.is_some()
    config,              \* app.config
    chan,                \* the mpsc channel (event_tx, event_rx)
    tasks,               \* the tasks tokio::spawn has started and not yet dropped
    lpc                  \* position of the main loop in its iteration

vars == <<state, should_quit, instances, filtered_instances, list_selected,
          filter, type_prices, instance_types, pricing_client, config,
          chan, tasks, lpc>>

appVars == <<instances, filtered_instances, list_selected, filter,
             type_prices, instance_types, pricing_client, config>>

----------------------------------------------------------------------------
(* Bounds of the model.                                                    *)

\* Tasks alive at the same time.
MaxTasks == 2
\* Characters the user types into the type picker before stopping.
MaxInput == 2
\* Characters the user types into the instance filter before stopping.
MaxFilter == 2
\* Polls of wait_until_stopped before the 300 s ceiling has certainly passed.
MaxPolls == 2

----------------------------------------------------------------------------
(* Strings.                                                                *)

None == <<>>
Some(x) == <<x>>
IsSome(o) == Len(o) = 1
Unwrap(o) == o[1]

\* The characters the model uses, in ASCII order.
Ascii ==
    << "-", ".", "0", "1", "2", "3", "4", "5", "6", "7", "8", "9",
       "A", "B", "C", "D", "E", "F", "G", "H", "I", "J", "K", "L", "M",
       "N", "O", "P", "Q", "R", "S", "T", "U", "V", "W", "X", "Y", "Z", "_",
       "a", "b", "c", "d", "e", "f", "g", "h", "i", "j", "k", "l", "m",
       "n", "o", "p", "q", "r", "s", "t", "u", "v", "w", "x", "y", "z" >>

Ord(c) == CHOOSE i \in 1..Len(Ascii) : Ascii[i] = c

\* char::to_lowercase on the ASCII letters.
LowerChar(c) ==
    IF Ord(c) >= Ord("A") /\ Ord(c) <= Ord("Z")
    THEN Ascii[Ord(c) - Ord("A") + Ord("a")]
    ELSE c

\* str::to_lowercase
ToLower(s) == [i \in 1..Len(s) |-> LowerChar(s[i])]

\* str::contains(pat): pat occurs as a contiguous substring.
Contains(s, pat) ==
    \E k \in 0..(Len(s) - Len(pat)) :
        \A j \in 1..Len(pat) : s[k + j] = pat[j]

\* str::starts_with(pat)
StartsWith(s, pat) ==
    /\ Len(pat) <= Len(s)
    /\ \A j \in 1..Len(pat) : s[j] = pat[j]

\* str::eq_ignore_ascii_case
EqIgnoreAsciiCase(a, b) == ToLower(a) = ToLower(b)

\* Ord::cmp on strings is Less: byte-wise lexicographic order.
RECURSIVE StrLess(_, _)
StrLess(a, b) ==
    IF Len(b) = 0 THEN FALSE
    ELSE IF Len(a) = 0 THEN TRUE
    ELSE IF Ord(a[1]) < Ord(b[1]) THEN TRUE
    ELSE IF Ord(a[1]) > Ord(b[1]) THEN FALSE
    ELSE StrLess(Tail(a), Tail(b))

\* String::pop: the string without its last character (unchanged when empty).
Pop(s) == IF Len(s) = 0 THEN s ELSE SubSeq(s, 1, Len(s) - 1)

\* Vec::contains
SeqContains(s, x) == \E i \in 1..Len(s) : s[i] = x

----------------------------------------------------------------------------
(* Data: instance types, instances, prices.                                *)

X86_64 == <<"x86_64">>
ARM64 == <<"arm64">>
AZ_1A == <<"us-east-1a">>

T_c5_large == <<"c", "5", ".", "l", "a", "r", "g", "e">>
T_m5_large == <<"m", "5", ".", "l", "a", "r", "g", "e">>
T_t3_micro == <<"t", "3", ".", "m", "i", "c", "r", "o">>
T_t3a_nano == <<"t", "3", "a", ".", "n", "a", "n", "o">>
T_t4g_nano == <<"t", "4", "g", ".", "n", "a", "n", "o">>

RUNNING == <<"r", "u", "n", "n", "i", "n", "g">>
STOPPED == <<"s", "t", "o", "p", "p", "e", "d">>

\* ec2::InstanceTypeInfo (name, architectures); vcpu and memory are display only.
TypeInfo(name, archs) == [name |-> name, architectures |-> archs]

\* What describe_instance_types may have answered at startup, sorted by name
\* (ec2.rs sorts), or nothing at all (the call failed: unwrap_or_else(vec![])).
Catalog ==
    << TypeInfo(T_c5_large, <<X86_64>>),
       TypeInfo(T_m5_large, <<X86_64>>),
       TypeInfo(T_t3_micro, <<X86_64>>),
       TypeInfo(T_t3a_nano, <<X86_64>>),
       TypeInfo(T_t4g_nano, <<ARM64>>) >>

NoCatalog == <<>>

\* ec2::InstanceInfo; public_ip and launch_time are display only.
Instance(id, name, ty, st, arch, az) ==
    [id |-> id, name |-> name, instance_type |-> ty, state |-> st,
     architecture |-> arch, availability_zone |-> az]

InstWeb ==
    Instance(<<"i", "-", "1">>, Some(<<"W", "e", "b">>), T_t3_micro, RUNNING,
             Some(X86_64), Some(AZ_1A))
InstDb ==
    Instance(<<"i", "-", "2">>, Some(<<"D", "B">>), T_m5_large, STOPPED,
             Some(X86_64), None)
InstArm ==
    Instance(<<"i", "-", "3">>, None, T_t4g_nano, RUNNING, Some(ARM64), Some(AZ_1A))

\* f64::MAX, the price an unpriced type is sorted by.
F64_MAX == 1000000

\* app::Prices
NoPrices == [on_demand |-> None, spot |-> None]

\* HashMap::entry(t).or_insert(Prices{None, None}), then one field is set.
MergeOnDemand(tp, prices) ==
    [t \in DOMAIN tp \cup DOMAIN prices |->
        IF t \in DOMAIN prices
        THEN [on_demand |-> Some(prices[t]),
              spot |-> IF t \in DOMAIN tp THEN tp[t].spot ELSE None]
        ELSE tp[t]]

\* A merge that replaces the whole record.
MergeSpot_Replaces(tp, prices) ==
    [t \in DOMAIN tp \cup DOMAIN prices |->
        IF t \in DOMAIN prices
        THEN [on_demand |-> None, spot |-> Some(prices[t])]
        ELSE tp[t]]

MergeSpot(tp, prices) ==
    [t \in DOMAIN tp \cup DOMAIN prices |->
        IF t \in DOMAIN prices
        THEN [on_demand |-> IF t \in DOMAIN tp THEN tp[t].on_demand ELSE None,
              spot |-> Some(prices[t])]
        ELSE tp[t]]

\* type_prices.get(a).and_then(|p| p.on_demand).unwrap_or(f64::MAX)
PriceOf(tp, a) ==
    IF a \in DOMAIN tp /\ IsSome(tp[a].on_demand)
    THEN Unwrap(tp[a].on_demand)
    ELSE F64_MAX

\* The comparator of the three sort_by calls on options:
\* price_a.partial_cmp(&price_b).unwrap_or(Equal).then_with(|| a.cmp(b)) is Less.
PriceLess(tp, a, b) ==
    \/ PriceOf(tp, a) < PriceOf(tp, b)
    \/ PriceOf(tp, a) = PriceOf(tp, b) /\ StrLess(a, b)

\* Vec::sort_by is a stable sort: an element goes after the elements that do
\* not compare greater than it.
RECURSIVE InsertByPrice(_, _, _)
InsertByPrice(tp, sorted, x) ==
    IF Len(sorted) = 0 THEN <<x>>
    ELSE IF PriceLess(tp, x, Head(sorted)) THEN <<x>> \o sorted
    ELSE <<Head(sorted)>> \o InsertByPrice(tp, Tail(sorted), x)

RECURSIVE SortByPrice(_, _)
SortByPrice(tp, opts) ==
    IF Len(opts) = 0 THEN <<>>
    ELSE InsertByPrice(tp, SortByPrice(tp, Pop(opts)), opts[Len(opts)])

\* Vec<String>::sort(): ascending by Ord::cmp.
RECURSIVE InsertByName(_, _)
InsertByName(sorted, x) ==
    IF Len(sorted) = 0 THEN <<x>>
    ELSE IF StrLess(x, Head(sorted)) THEN <<x>> \o sorted
    ELSE <<Head(sorted)>> \o InsertByName(Tail(sorted), x)

RECURSIVE SortByName(_)
SortByName(opts) ==
    IF Len(opts) = 0 THEN <<>>
    ELSE InsertByName(SortByName(Pop(opts)), opts[Len(opts)])

----------------------------------------------------------------------------
(* app.rs                                                                  *)

\* The fallback list of App::get_instance_types.
FallbackTypes ==
    << <<"t", "3", ".", "n", "a", "n", "o">>,
       <<"t", "3", ".", "m", "i", "c", "r", "o">>,
       <<"t", "3", ".", "s", "m", "a", "l", "l">>,
       <<"t", "3", ".", "m", "e", "d", "i", "u", "m">>,
       <<"t", "3", ".", "l", "a", "r", "g", "e">>,
       <<"t", "3", "a", ".", "n", "a", "n", "o">>,
       <<"t", "3", "a", ".", "m", "i", "c", "r", "o">>,
       <<"t", "3", "a", ".", "s", "m", "a", "l", "l">>,
       <<"t", "3", "a", ".", "m", "e", "d", "i", "u", "m">>,
       <<"t", "2", ".", "n", "a", "n", "o">>,
       <<"t", "2", ".", "m", "i", "c", "r", "o">>,
       <<"t", "2", ".", "s", "m", "a", "l", "l">>,
       <<"m", "5", ".", "l", "a", "r", "g", "e">>,
       <<"m", "5", ".", "x", "l", "a", "r", "g", "e">>,
       <<"c", "5", ".", "l", "a", "r", "g", "e">> >>

\* App::get_instance_types(architecture)
GetInstanceTypes(types, architecture) ==
    LET arch == IF IsSome(architecture) THEN Unwrap(architecture) ELSE X86_64
        Has(t) == SeqContains(t.architectures, arch)
        kept == SelectSeq(types, Has)
    IN  IF Len(types) = 0
        THEN FallbackTypes
        ELSE [i \in 1..Len(kept) |-> kept[i].name]

\* list_state.selected().and_then(|i| filtered_instances.get(i))
SelectedInstance(visible, sel) ==
    IF IsSome(sel) /\ Unwrap(sel) + 1 <= Len(visible)
    THEN Some(visible[Unwrap(sel) + 1])
    ELSE None

\* App::get_selected_architecture
GetSelectedArchitecture(visible, sel) ==
    IF IsSome(SelectedInstance(visible, sel))
    THEN Unwrap(SelectedInstance(visible, sel)).architecture
    ELSE None

\* A match that does not lower-case the fields.
Matches_CaseSensitive(i, f) ==
    \/ Contains(i.id, f)
    \/ IsSome(i.name) /\ Contains(Unwrap(i.name), f)
    \/ Contains(i.instance_type, f)
    \/ Contains(i.state, f)

\* The closure of update_filter: one instance matches the lower-cased filter f.
Matches(i, f) ==
    \/ Contains(ToLower(i.id), f)
    \/ IsSome(i.name) /\ Contains(ToLower(Unwrap(i.name)), f)
    \/ Contains(ToLower(i.instance_type), f)
    \/ Contains(ToLower(i.state), f)

\* a.name.as_deref().unwrap_or("")
NameKey(i) == IF IsSome(i.name) THEN Unwrap(i.name) ELSE <<>>

\* An insertion that puts x before the entries of equal name.
RECURSIVE InsertInstance_BeforeEqual(_, _)
InsertInstance_BeforeEqual(sorted, x) ==
    IF Len(sorted) = 0 THEN <<x>>
    ELSE IF ~StrLess(NameKey(Head(sorted)), NameKey(x)) THEN <<x>> \o sorted
    ELSE <<Head(sorted)>> \o InsertInstance_BeforeEqual(Tail(sorted), x)

RECURSIVE InsertInstance(_, _)
InsertInstance(sorted, x) ==
    IF Len(sorted) = 0 THEN <<x>>
    ELSE IF StrLess(NameKey(x), NameKey(Head(sorted))) THEN <<x>> \o sorted
    ELSE <<Head(sorted)>> \o InsertInstance(Tail(sorted), x)

\* An update_filter that does not sort.
SortInstances_Keeps(s) == s

\* filtered_instances.sort_by(name): stable.
RECURSIVE SortInstances(_)
SortInstances(s) ==
    IF Len(s) = 0 THEN <<>>
    ELSE InsertInstance(SortInstances(Pop(s)), s[Len(s)])

\* App::update_filter, the new filtered_instances.
FilteredOf(all, flt) ==
    LET f == ToLower(flt)
        Keep(i) == Matches(i, f)
        kept == IF Len(flt) = 0 THEN all ELSE SelectSeq(all, Keep)
    IN  IF Len(kept) = 0 THEN kept ELSE SortInstances(kept)

\* App::update_filter, the new list_state.selected().
SelectedAfter(visible, sel) ==
    IF Len(visible) = 0 THEN None
    ELSE IF (IF IsSome(sel) THEN Unwrap(sel) ELSE 0) >= Len(visible) THEN Some(0)
    ELSE sel

----------------------------------------------------------------------------
(* AppState, AppEvent, tasks.                                              *)

\* app::AppState
StList == [tag |-> "List"]
StFilterInput == [tag |-> "FilterInput"]
StSelectingType(input, options, selected_index, default_mode_active) ==
    [tag |-> "SelectingType", input |-> input, options |-> options,
     selected_index |-> selected_index,
     default_mode_active |-> default_mode_active]
StConfirmReboot(id) == [tag |-> "ConfirmReboot", id |-> id]
StProcessing(msg) == [tag |-> "Processing", msg |-> msg]

\* app::AppEvent
EvError(e) == [type |-> "Error", msg |-> e]
EvMessage(m) == [type |-> "Message", msg |-> m]
EvInstancesUpdated == [type |-> "InstancesUpdated"]
EvInstancesFetched(list) == [type |-> "InstancesFetched", instances |-> list]
EvBulkOnDemandFetched(prices) == [type |-> "BulkOnDemandFetched", prices |-> prices]
EvBulkSpotFetched(prices) == [type |-> "BulkSpotFetched", prices |-> prices]

\* mpsc::channel(10)
ChannelCapacity == 10

\* The text of an error a remote call returns (e.to_string()).
RemoteError == <<"service error">>
\* anyhow!("Timeout waiting for instance to stop")
TimeoutError == <<"Timeout waiting for instance to stop">>

\* A task as tokio::spawn starts it: the values the closure captured, its
\* position, and what it has done so far (the remote calls and the sends).
Task(kind, pc, id, new_type, credit_spec) ==
    [kind |-> kind, pc |-> pc, instance_id |-> id, new_type |-> new_type,
     credit_spec |-> credit_spec, err |-> <<>>, data |-> <<>>, polls |-> 0,
     calls |-> <<>>, sent |-> <<>>]

RefreshTask == Task("refresh", "list", <<>>, <<>>, <<>>)
OnDemandTask == Task("on_demand", "fetch", <<>>, <<>>, <<>>)
SpotTask(az) == Task("spot", "fetch", az, <<>>, <<>>)
StopTask(id) == Task("stop", "stop", id, <<>>, <<>>)
StartTask(id) == Task("start", "start", id, <<>>, <<>>)
RebootTask(id) == Task("reboot", "reboot", id, <<>>, <<>>)
ForceRebootTask(id) == Task("force_reboot", "force_stop", id, <<>>, <<>>)
ResizeTask(id, new_type, credit_spec) ==
    Task("resize", "stop", id, new_type, credit_spec)

\* No finished task is waiting to be dropped.  The runtime drops a task as it
\* finishes; TaskDrop does that as a step of its own, taken before any other.
NoneDone == \A i \in 1..Len(tasks) : tasks[i].pc # "done"

\* InstancesUpdated events queued: each will spawn a refresh when consumed.
PendingUpdates ==
    Cardinality({i \in 1..Len(chan) : chan[i].type = "InstancesUpdated"})

\* The bound on tasks, put on what the user and the timer start.
CanSpawn(n) == Len(tasks) + PendingUpdates + n <= MaxTasks

----------------------------------------------------------------------------
(* The main loop, main.rs: timer check, one event, one key, quit check.    *)

Loop(p) == lpc = p /\ NoneDone

\* main.rs 62-78: the refresh interval has elapsed or not.
TimerCheck(elapsed) ==
    /\ Loop("timer")
    /\ elapsed => CanSpawn(1)
    /\ tasks' = IF elapsed THEN Append(tasks, RefreshTask) ELSE tasks
    /\ lpc' = "events"
    /\ UNCHANGED <<state, should_quit, chan, appVars>>

\* try_recv on an empty channel.
RecvNothing ==
    /\ Loop("events")
    /\ chan = <<>>
    /\ lpc' = "input"
    /\ UNCHANGED <<state, should_quit, chan, tasks, appVars>>

\* A loop that drains the channel in one iteration.
Recv_DrainsAll(type) ==
    /\ Loop("events")
    /\ chan # <<>>
    /\ Head(chan).type = type
    /\ chan' = <<>>
    /\ lpc' = "input"
    /\ UNCHANGED <<should_quit, instance_types, pricing_client, config>>

\* The frame of the arms of `match event`.
Recv(type) ==
    /\ Loop("events")
    /\ chan # <<>>
    /\ Head(chan).type = type
    /\ chan' = Tail(chan)
    /\ lpc' = "input"
    /\ UNCHANGED <<should_quit, instance_types, pricing_client, config>>

\* A refresh that adds the fetched instances to the ones it has.
FetchedCache_Merges(old, payload) == old \o payload

\* main.rs 85: `app.instances = instances`.
FetchedCache(old, payload) == payload

\* main.rs 84-88
RecvInstancesFetched ==
    /\ Recv("InstancesFetched")
    /\ instances' = FetchedCache(instances, Head(chan).instances)
    /\ filtered_instances' = FilteredOf(instances', filter)
    /\ list_selected' = SelectedAfter(filtered_instances', list_selected)
    /\ UNCHANGED <<state, filter, type_prices, tasks>>

\* main.rs 98-126: what the event does to the state.
\* A handler that re-sorts in default mode too.
OnDemandState_AlwaysSorts(st, tp) ==
    IF st.tag = "SelectingType"
    THEN StSelectingType(st.input, SortByPrice(tp, st.options),
                         IF Len(st.options) = 0 THEN None ELSE Some(0),
                         st.default_mode_active)
    ELSE st

\* A handler that closes the picker when prices arrive.
OnDemandState_ClosesPicker(st, tp) ==
    IF st.tag = "SelectingType" THEN StList ELSE st

OnDemandState(st, tp) ==
    IF st.tag = "SelectingType" /\ ~st.default_mode_active
    THEN StSelectingType(st.input, SortByPrice(tp, st.options),
                         IF Len(st.options) = 0 THEN None ELSE Some(0),
                         st.default_mode_active)
    ELSE st

RecvBulkOnDemandFetched ==
    /\ Recv("BulkOnDemandFetched")
    /\ type_prices' = MergeOnDemand(type_prices, Head(chan).prices)
    /\ state' = OnDemandState(state, MergeOnDemand(type_prices, Head(chan).prices))
    /\ UNCHANGED <<instances, filtered_instances, list_selected, filter, tasks>>

RecvBulkSpotFetched ==
    /\ Recv("BulkSpotFetched")
    /\ type_prices' = MergeSpot(type_prices, Head(chan).prices)
    /\ UNCHANGED <<state, instances, filtered_instances, list_selected, filter,
                   tasks>>

\* A handler that returns to the list from every state.
UpdatedState_AlwaysList(st) == StList

\* main.rs 152-155
UpdatedState(st) == IF st.tag = "Processing" THEN StList ELSE st

RecvInstancesUpdated ==
    /\ Recv("InstancesUpdated")
    /\ tasks' = Append(tasks, RefreshTask)
    /\ state' = UpdatedState(state)
    /\ UNCHANGED <<instances, filtered_instances, list_selected, filter,
                   type_prices>>

\* main.rs 157-160: format!("Error: {}", e)
ErrorState(st, e) == StProcessing(<<"Error: ">> \o e)

RecvError ==
    /\ Recv("Error")
    /\ state' = ErrorState(state, Head(chan).msg)
    /\ UNCHANGED <<instances, filtered_instances, list_selected, filter,
                   type_prices, tasks>>

\* A handler that shows a message only over the list or another message.
MessageState_KeepsDialogs(st, msg) ==
    IF st.tag \in {"List", "Processing"} THEN StProcessing(msg) ELSE st

\* main.rs 161-163
MessageState(st, msg) == StProcessing(msg)

RecvMessage ==
    /\ Recv("Message")
    /\ state' = MessageState(state, Head(chan).msg)
    /\ UNCHANGED <<instances, filtered_instances, list_selected, filter,
                   type_prices, tasks>>

\* event::poll times out, or what it reads is no key.
NoKey ==
    /\ Loop("input")
    /\ lpc' = "check"
    /\ UNCHANGED <<state, should_quit, chan, tasks, appVars>>

\* A quit check that leaves the loop whatever the flag says.
QuitCheck_Unconditional ==
    /\ Loop("check")
    /\ lpc' = "exited"
    /\ UNCHANGED <<state, should_quit, chan, tasks, appVars>>

\* main.rs 741-743
QuitCheck ==
    /\ Loop("check")
    /\ lpc' = IF should_quit THEN "exited" ELSE "timer"
    /\ UNCHANGED <<state, should_quit, chan, tasks, appVars>>

\* A key is read in state `tag` (main.rs 167-175).
Key(tag) ==
    /\ Loop("input")
    /\ state.tag = tag
    /\ lpc' = "check"
    /\ chan' = chan
    /\ UNCHANGED <<instances, instance_types, pricing_client, config, type_prices>>

\* A key handler that does not look at CONTROL.
Quit_Ignores(ctrl_c) == should_quit' = should_quit

\* main.rs 170-172: ctrl_c is "the key is Char('c') with CONTROL held".
Quit(ctrl_c) == should_quit' = (should_quit \/ ctrl_c)

ListUnchanged == UNCHANGED <<filter, filtered_instances, list_selected>>

----------------------------------------------------------------------------
(* Keys in AppState::List, main.rs 176-330.                                *)

\* Char('q')
ListQuit ==
    /\ Key("List")
    /\ should_quit' = TRUE
    /\ UNCHANGED <<state, tasks>>
    /\ ListUnchanged

\* Char('f')
ListFilter ==
    /\ Key("List")
    /\ state' = StFilterInput
    /\ Quit(FALSE)
    /\ UNCHANGED tasks
    /\ ListUnchanged

\* App::next, app.rs 109-121, for a visible list of len >= 1 or no selection
\* (`len() - 1` is then no underflow).
NextIndex(sel, len) ==
    IF IsSome(sel)
    THEN (IF Unwrap(sel) >= len - 1 THEN 0 ELSE Unwrap(sel) + 1)
    ELSE 0

\* App::previous, app.rs 123-135, under the same condition.
PreviousIndex(sel, len) ==
    IF IsSome(sel)
    THEN (IF Unwrap(sel) = 0 THEN len - 1 ELSE Unwrap(sel) - 1)
    ELSE 0

\* A navigation key of the list selects idx.
ListSelect(idx) ==
    /\ Key("List")
    /\ Quit(FALSE)
    /\ list_selected' = Some(idx)
    /\ UNCHANGED <<state, tasks, filter, filtered_instances>>

\* Down
ListDown ==
    /\ Len(filtered_instances) >= 1 \/ ~IsSome(list_selected)
    /\ ListSelect(NextIndex(list_selected, Len(filtered_instances)))

\* Up
ListUp ==
    /\ Len(filtered_instances) >= 1 \/ ~IsSome(list_selected)
    /\ ListSelect(PreviousIndex(list_selected, Len(filtered_instances)))

\* An opening that starts both fetches whatever is cached.
PriceTasks_Ungated(inst, has_pricing, tp) ==
    IF IsSome(inst.availability_zone)
    THEN <<OnDemandTask, SpotTask(Unwrap(inst.availability_zone))>>
    ELSE <<>>

\* The price fetches Char('c') starts for `inst` (main.rs 212-242).
PriceTasks(inst, has_pricing, tp) ==
    IF IsSome(inst.availability_zone)
    THEN (IF has_pricing /\ DOMAIN tp = {} THEN <<OnDemandTask>> ELSE <<>>)
         \o <<SpotTask(Unwrap(inst.availability_zone))>>
    ELSE <<>>

\* config.default_instance_type.clone().unwrap_or_default()
DefaultType(cfg) ==
    IF IsSome(cfg.default_instance_type)
    THEN Unwrap(cfg.default_instance_type)
    ELSE <<>>

\* A picker that opens with its first option highlighted.
PickerOpened_SelectsFirst(types, inst, cfg) ==
    StSelectingType(DefaultType(cfg),
                    SortByName(GetInstanceTypes(types, inst.architecture)),
                    Some(0), TRUE)

\* The state Char('c') opens on `inst` (main.rs 207-209, 244-260).
PickerOpened(types, inst, cfg) ==
    StSelectingType(DefaultType(cfg),
                    SortByName(GetInstanceTypes(types, inst.architecture)),
                    None, TRUE)

\* Char('c'), with or without CONTROL
ListChangeType(ctrl) ==
    LET sel == SelectedInstance(filtered_instances, list_selected) IN
    /\ Key("List")
    /\ Quit(ctrl)
    /\ IF IsSome(sel)
       THEN /\ CanSpawn(Len(PriceTasks(Unwrap(sel), pricing_client, type_prices)))
            /\ tasks' = tasks \o PriceTasks(Unwrap(sel), pricing_client, type_prices)
            /\ state' = PickerOpened(instance_types, Unwrap(sel), config)
       ELSE UNCHANGED <<state, tasks>>
    /\ ListUnchanged

\* Char('s')
ListStop ==
    LET sel == SelectedInstance(filtered_instances, list_selected) IN
    /\ Key("List")
    /\ Quit(FALSE)
    /\ IF IsSome(sel)
       THEN /\ CanSpawn(1)
            /\ state' = StProcessing(<<"Stopping ">> \o Unwrap(sel).id \o <<"...">>)
            /\ tasks' = Append(tasks, StopTask(Unwrap(sel).id))
       ELSE UNCHANGED <<state, tasks>>
    /\ ListUnchanged

\* Char('S')
ListStart ==
    LET sel == SelectedInstance(filtered_instances, list_selected) IN
    /\ Key("List")
    /\ Quit(FALSE)
    /\ IF IsSome(sel)
       THEN /\ CanSpawn(1)
            /\ state' = StProcessing(<<"Starting ">> \o Unwrap(sel).id \o <<"...">>)
            /\ tasks' = Append(tasks, StartTask(Unwrap(sel).id))
       ELSE UNCHANGED <<state, tasks>>
    /\ ListUnchanged

\* A reboot request that always opens the dialog.
RebootGate_NoGate(inst) == StConfirmReboot(inst.id)

\* main.rs 318-325: the state Char('r') leads to on `inst`.
RebootGate(inst) ==
    IF EqIgnoreAsciiCase(inst.state, RUNNING)
    THEN StConfirmReboot(inst.id)
    ELSE StProcessing(<<"Error: ", "Cannot reboot instance ">> \o inst.id
                      \o <<" because it is in state '">> \o inst.state \o <<"'.">>)

\* Char('r')
ListReboot ==
    LET sel == SelectedInstance(filtered_instances, list_selected) IN
    /\ Key("List")
    /\ Quit(FALSE)
    /\ state' = IF IsSome(sel) THEN RebootGate(Unwrap(sel)) ELSE state
    /\ UNCHANGED tasks
    /\ ListUnchanged

----------------------------------------------------------------------------
(* Keys in AppState::ConfirmReboot, main.rs 331-381.                       *)

\* Char('y') | Enter
ConfirmYes ==
    /\ Key("ConfirmReboot")
    /\ Quit(FALSE)
    /\ CanSpawn(1)
    /\ state' = StProcessing(<<"Rebooting ">> \o state.id \o <<"...">>)
    /\ tasks' = Append(tasks, RebootTask(state.id))
    /\ ListUnchanged

\* An f that asks for the plain reboot.
ConfirmForce_Plain ==
    /\ Key("ConfirmReboot")
    /\ Quit(FALSE)
    /\ CanSpawn(1)
    /\ state' = StProcessing(<<"Forced Rebooting ">> \o state.id \o <<"...">>)
    /\ tasks' = Append(tasks, RebootTask(state.id))
    /\ ListUnchanged

\* Char('f')
ConfirmForce ==
    /\ Key("ConfirmReboot")
    /\ Quit(FALSE)
    /\ CanSpawn(1)
    /\ state' = StProcessing(<<"Forced Rebooting ">> \o state.id \o <<"...">>)
    /\ tasks' = Append(tasks, ForceRebootTask(state.id))
    /\ ListUnchanged

\* Char('n') | Esc
ConfirmNo ==
    /\ Key("ConfirmReboot")
    /\ Quit(FALSE)
    /\ state' = StList
    /\ UNCHANGED tasks
    /\ ListUnchanged

----------------------------------------------------------------------------
(* Keys in AppState::FilterInput, main.rs 382-398.                         *)

\* Esc, Enter
FilterClose ==
    /\ Key("FilterInput")
    /\ Quit(FALSE)
    /\ state' = StList
    /\ UNCHANGED <<tasks, filter, filtered_instances, list_selected>>

\* filter := f, then update_filter()
SetFilter(f) ==
    /\ filter' = f
    /\ filtered_instances' = FilteredOf(instances, f)
    /\ list_selected' = SelectedAfter(FilteredOf(instances, f), list_selected)

\* Char(c), with or without CONTROL when c is 'c'
FilterChar(c, ctrl) ==
    /\ Key("FilterInput")
    /\ Quit(ctrl /\ c = "c")
    /\ Len(filter) < MaxFilter
    /\ SetFilter(Append(filter, c))
    /\ UNCHANGED <<state, tasks>>

\* Backspace
FilterBackspace ==
    /\ Key("FilterInput")
    /\ Quit(FALSE)
    /\ SetFilter(Pop(filter))
    /\ UNCHANGED <<state, tasks>>

----------------------------------------------------------------------------
(* Keys in AppState::Processing, main.rs 733-737.                          *)

\* A dismissal that also cancels the running tasks.
ProcessingDismiss_Cancels ==
    /\ Key("Processing")
    /\ Quit(FALSE)
    /\ state' = StList
    /\ tasks' = <<>>
    /\ ListUnchanged

\* Esc, Enter
ProcessingDismiss ==
    /\ Key("Processing")
    /\ Quit(FALSE)
    /\ state' = StList
    /\ UNCHANGED tasks
    /\ ListUnchanged

----------------------------------------------------------------------------
(* A key the match of the current state has no arm for (`_ => {}`), and in *)
(* Processing any key but Esc and Enter; ctrl_c: it is Ctrl-C.             *)

IgnoredKey(tag, ctrl_c) ==
    /\ Key(tag)
    /\ tag \in {"ConfirmReboot", "Processing"} \/ ~ctrl_c
    /\ Quit(ctrl_c)
    /\ UNCHANGED <<state, tasks>>
    /\ ListUnchanged

----------------------------------------------------------------------------
(* Keys in AppState::SelectingType, main.rs 399-732.                       *)

\* usize::saturating_sub
SatSub(a, b) == IF a >= b THEN a - b ELSE 0
Min(a, b) == IF a <= b THEN a ELSE b

\* The rows a PageUp or PageDown moves by.
PageStep == 20

\* The arms of the navigation keys share this frame.
Nav(st) ==
    /\ Key("SelectingType")
    /\ Quit(FALSE)
    /\ state' = st
    /\ UNCHANGED tasks
    /\ ListUnchanged

\* A navigation key that leaves the default text in the input.
LeaveDefault_KeepsInput(st) == StSelectingType(st.input, st.options, Some(0), FALSE)

\* main.rs 410-413: what Up, Down, PageUp and PageDown do in default mode.
LeaveDefault(st) == StSelectingType(<<>>, st.options, Some(0), FALSE)

WithIndex(st, idx) ==
    StSelectingType(st.input, st.options, idx, st.default_mode_active)

\* Esc
SelEsc ==
    /\ Key("SelectingType")
    /\ Quit(FALSE)
    /\ state' = StList
    /\ UNCHANGED tasks
    /\ ListUnchanged

\* Up
UpState(st) ==
    IF st.default_mode_active THEN LeaveDefault(st)
    ELSE IF IsSome(st.selected_index) /\ Unwrap(st.selected_index) > 0
    THEN WithIndex(st, Some(Unwrap(st.selected_index) - 1))
    ELSE st

SelUp == Nav(UpState(state))

\* A Down that wraps from the last option to the first.
DownState_Wraps(st) ==
    IF st.default_mode_active THEN LeaveDefault(st)
    ELSE IF IsSome(st.selected_index)
    THEN WithIndex(st, Some(IF Unwrap(st.selected_index) + 1 < Len(st.options)
                            THEN Unwrap(st.selected_index) + 1 ELSE 0))
    ELSE st

\* Down
DownState(st) ==
    IF st.default_mode_active THEN LeaveDefault(st)
    ELSE IF /\ IsSome(st.selected_index)
            /\ Unwrap(st.selected_index) < SatSub(Len(st.options), 1)
    THEN WithIndex(st, Some(Unwrap(st.selected_index) + 1))
    ELSE st

SelDown == Nav(DownState(state))

\* PageUp
PageUpState(st) ==
    IF st.default_mode_active THEN LeaveDefault(st)
    ELSE IF IsSome(st.selected_index)
    THEN WithIndex(st, Some(SatSub(Unwrap(st.selected_index), PageStep)))
    ELSE st

SelPageUp == Nav(PageUpState(state))

\* PageDown
PageDownState(st) ==
    IF st.default_mode_active THEN LeaveDefault(st)
    ELSE IF IsSome(st.selected_index)
    THEN WithIndex(st, Some(Min(Unwrap(st.selected_index) + PageStep,
                                SatSub(Len(st.options), 1))))
    ELSE st

SelPageDown == Nav(PageDownState(state))

\* Home
HomeState(st) ==
    StSelectingType(IF st.default_mode_active THEN <<>> ELSE st.input,
                    st.options, Some(0), FALSE)

SelHome == Nav(HomeState(state))

\* End
EndState(st) ==
    StSelectingType(IF st.default_mode_active THEN <<>> ELSE st.input,
                    st.options, Some(SatSub(Len(st.options), 1)), FALSE)

SelEnd == Nav(EndState(state))

\* A filter that leaves the options in the order of the catalog.
TypeOptions_Unsorted(types, arch, tp, input) ==
    LET Has(t) == Contains(t, input)
    IN  SelectSeq(GetInstanceTypes(types, arch), Has)

\* main.rs 507-536 and 562-588: the options for `input`, and the index.
TypeOptions(types, arch, tp, input) ==
    LET Has(t) == Contains(t, input)
    IN  SortByPrice(tp, SelectSeq(GetInstanceTypes(types, arch), Has))

\* A filter result that turns default mode on.
Filtered_DefaultOn(types, arch, tp, input) ==
    StSelectingType(input, TypeOptions(types, arch, tp, input),
                    IF Len(TypeOptions(types, arch, tp, input)) = 0
                    THEN None ELSE Some(0),
                    TRUE)

Filtered(types, arch, tp, input) ==
    StSelectingType(input, TypeOptions(types, arch, tp, input),
                    IF Len(TypeOptions(types, arch, tp, input)) = 0
                    THEN None ELSE Some(0),
                    FALSE)

\* A Char(c) that keeps the default text in the input.
CharState_KeepsInput(st, c, types, arch, tp) ==
    Filtered(types, arch, tp, Append(st.input, c))

\* main.rs 501-543: Char(c)
CharState(st, c, types, arch, tp) ==
    Filtered(types, arch, tp,
             Append(IF st.default_mode_active THEN <<>> ELSE st.input, c))

SelChar(c, ctrl) ==
    /\ Key("SelectingType")
    /\ Quit(ctrl /\ c = "c")
    /\ Len(IF state.default_mode_active THEN <<>> ELSE state.input) < MaxInput
    /\ state' = CharState(state, c, instance_types,
                          GetSelectedArchitecture(filtered_instances, list_selected),
                          type_prices)
    /\ UNCHANGED tasks
    /\ ListUnchanged

\* A Backspace that filters by the emptied input instead of going back to
\* default mode.
BackspaceState_KeepsEmpty(st, types, arch, tp, cfg) ==
    IF st.default_mode_active THEN st
    ELSE Filtered(types, arch, tp, Pop(st.input))

\* main.rs 544-597: Backspace
BackspaceState(st, types, arch, tp, cfg) ==
    IF st.default_mode_active THEN st
    ELSE IF Len(Pop(st.input)) = 0
    THEN StSelectingType(DefaultType(cfg),
                         SortByName(GetInstanceTypes(types, arch)), None, TRUE)
    ELSE Filtered(types, arch, tp, Pop(st.input))

SelBackspace ==
    /\ Key("SelectingType")
    /\ Quit(FALSE)
    /\ state' = BackspaceState(state, instance_types,
                               GetSelectedArchitecture(filtered_instances,
                                                       list_selected),
                               type_prices, config)
    /\ UNCHANGED tasks
    /\ ListUnchanged

\* A selection without the rule of the single option.
SelectedOption_NoSingleRule(st) ==
    IF IsSome(st.selected_index)
    THEN (IF Unwrap(st.selected_index) + 1 <= Len(st.options)
          THEN Some(st.options[Unwrap(st.selected_index) + 1])
          ELSE None)
    ELSE IF SeqContains(st.options, st.input) THEN Some(st.input)
    ELSE None

\* main.rs 599-607
SelectedOption(st) ==
    IF Len(st.options) = 1 THEN Some(st.options[1])
    ELSE IF IsSome(st.selected_index)
    THEN (IF Unwrap(st.selected_index) + 1 <= Len(st.options)
          THEN Some(st.options[Unwrap(st.selected_index) + 1])
          ELSE None)
    ELSE IF SeqContains(st.options, st.input) THEN Some(st.input)
    ELSE None

\* config.t_family_credit.clone().unwrap_or("standard")
CreditSpec(cfg) ==
    IF IsSome(cfg.t_family_credit) THEN Unwrap(cfg.t_family_credit)
    ELSE <<"standard">>

\* An Enter that spawns a saga even for the instance's own type.
EnterTasks_Always(new_type, inst, cfg) ==
    <<ResizeTask(inst.id, new_type, CreditSpec(cfg))>>

\* main.rs 609-630: the tasks Enter spawns, choosing new_type for inst.
EnterTasks(new_type, inst, cfg) ==
    IF new_type = inst.instance_type THEN <<>>
    ELSE <<ResizeTask(inst.id, new_type, CreditSpec(cfg))>>

\* main.rs 613-619: the state Enter leads to, choosing new_type for inst.
EnterState(new_type, inst) ==
    IF new_type = inst.instance_type THEN StList
    ELSE StProcessing(<<"Stopping ">> \o inst.id \o <<"...">>)

\* Enter
SelEnter ==
    LET chosen == SelectedOption(state)
        sel == SelectedInstance(filtered_instances, list_selected)
    IN
    /\ Key("SelectingType")
    /\ Quit(FALSE)
    /\ IF IsSome(chosen) /\ IsSome(sel)
       THEN /\ CanSpawn(Len(EnterTasks(Unwrap(chosen), Unwrap(sel), config)))
            /\ state' = EnterState(Unwrap(chosen), Unwrap(sel))
            /\ tasks' = tasks \o EnterTasks(Unwrap(chosen), Unwrap(sel), config)
       ELSE UNCHANGED <<state, tasks>>
    /\ ListUnchanged

----------------------------------------------------------------------------
(* The background tasks.  A task moves by remote calls, whose outcome the  *)
(* remote side decides, and by sends, which wait while the channel is full.*)

\* A saga that sets the credit specification for every type.
IsBurstable_Always(new_type) == TRUE

\* new_type.starts_with("t")
IsBurstable(new_type) == StartsWith(new_type, <<"t">>)

\* A saga that goes on to Start after reporting a fatal failure.
AfterFatalError_GoesOn == "msg_start"

\* main.rs 639, 660, 680, 717: `return` after the Error of a failed stop,
\* wait, modify or start.
AfterFatalError == "done"

\* A saga that returns after a failed credit specification.
AfterCreditError_Returns == "done"

\* main.rs 696-707: the arm of a failed credit specification has no `return`;
\* the task goes on to "// 4. Start".
AfterCreditError == "msg_start"

\* The remote call a task makes at its pc: the operation, and the pc that
\* follows its success and its failure.  (wait_until_stopped, list_instances
\* and the price fetches are the actions WaitPoll, ListInstances, FetchPrices.)
CallAt(t) ==
    CASE t.kind = "stop" /\ t.pc = "stop" ->
            [op |-> "stop_instances", ok |-> "msg_ok", err |-> "err"]
      [] t.kind = "start" /\ t.pc = "start" ->
            [op |-> "start_instances", ok |-> "msg_ok", err |-> "err"]
      [] t.kind = "reboot" /\ t.pc = "reboot" ->
            [op |-> "reboot_instances", ok |-> "msg_ok", err |-> "err"]
      [] t.kind = "force_reboot" /\ t.pc = "force_stop" ->
            [op |-> "stop_instances(force)", ok |-> "wait", err |-> "err"]
      [] t.kind = "force_reboot" /\ t.pc = "start" ->
            [op |-> "start_instances", ok |-> "msg_ok", err |-> "err"]
      [] t.kind = "resize" /\ t.pc = "stop" ->
            [op |-> "stop_instances", ok |-> "msg_wait", err |-> "err_stop"]
      [] t.kind = "resize" /\ t.pc = "modify" ->
            [op |-> "modify_instance_attribute",
             ok |-> IF IsBurstable(t.new_type) THEN "msg_credit" ELSE "msg_start",
             err |-> "err_modify"]
      [] t.kind = "resize" /\ t.pc = "credit" ->
            [op |-> "modify_instance_credit_specification",
             ok |-> "msg_start", err |-> "err_credit"]
      [] t.kind = "resize" /\ t.pc = "start" ->
            [op |-> "start_instances", ok |-> "msg_done", err |-> "err_start"]
      [] OTHER -> [op |-> "", ok |-> "", err |-> ""]

\* A saga that goes on to "// 2. Modify" when the wait has failed.
WaitAt_GoesOn(t) ==
    CASE t.kind = "resize" -> [ok |-> "msg_change", err |-> "msg_change"]
      [] t.kind = "force_reboot" -> [ok |-> "start", err |-> "start"]
      [] OTHER -> [ok |-> "", err |-> ""]

\* The pc after wait_until_stopped returns Ok, and after it returns Err.
WaitAt(t) ==
    CASE t.kind = "resize" -> [ok |-> "msg_change", err |-> "err_wait"]
      [] t.kind = "force_reboot" -> [ok |-> "start", err |-> "err"]
      [] OTHER -> [ok |-> "", err |-> ""]

\* format!("{:?}", e): the Debug form of an error, not its Display form.
DebugFmt(e) == <<"Debug(">> \o e \o <<")">>

\* The event a task sends at its pc, and the pc that follows.
SendAt(t) ==
    CASE t.kind = "refresh" /\ t.pc = "send_fetched" ->
            [ev |-> EvInstancesFetched(t.data), next |-> "done"]
      [] t.kind = "refresh" /\ t.pc = "send_err" ->
            [ev |-> EvError(t.err), next |-> "done"]
      [] t.kind = "on_demand" /\ t.pc = "send_prices" ->
            [ev |-> EvBulkOnDemandFetched(t.data), next |-> "done"]
      [] t.kind = "spot" /\ t.pc = "send_prices" ->
            [ev |-> EvBulkSpotFetched(t.data), next |-> "done"]
      [] t.kind = "stop" /\ t.pc = "err" ->
            [ev |-> EvError(<<"Stop failed: ">> \o t.err), next |-> "done"]
      [] t.kind = "stop" /\ t.pc = "msg_ok" ->
            [ev |-> EvMessage(<<"Stopped. Refreshing...">>), next |-> "updated"]
      [] t.kind = "start" /\ t.pc = "err" ->
            [ev |-> EvError(<<"Start failed: ">> \o t.err), next |-> "done"]
      [] t.kind = "start" /\ t.pc = "msg_ok" ->
            [ev |-> EvMessage(<<"Started. Refreshing...">>), next |-> "updated"]
      [] t.kind = "reboot" /\ t.pc = "err" ->
            [ev |-> EvError(<<"Reboot failed: ">> \o t.err), next |-> "done"]
      [] t.kind = "reboot" /\ t.pc = "msg_ok" ->
            [ev |-> EvMessage(<<"Rebooted. (Note: AWS Runtime does not reset)">>),
             next |-> "updated"]
      [] t.kind = "force_reboot" /\ t.pc = "err" ->
            [ev |-> EvError(<<"Forced Reboot failed: ">> \o t.err), next |-> "done"]
      [] t.kind = "force_reboot" /\ t.pc = "msg_ok" ->
            [ev |-> EvMessage(<<"Forced Reboot Complete.">>), next |-> "updated"]
      [] t.kind = "resize" /\ t.pc = "err_stop" ->
            [ev |-> EvError(<<"Stop failed: ">> \o t.err), next |-> AfterFatalError]
      [] t.kind = "resize" /\ t.pc = "msg_wait" ->
            [ev |-> EvMessage(<<"Waiting for stop...">>), next |-> "wait"]
      [] t.kind = "resize" /\ t.pc = "err_wait" ->
            [ev |-> EvError(<<"Wait failed: ">> \o t.err), next |-> AfterFatalError]
      [] t.kind = "resize" /\ t.pc = "msg_change" ->
            [ev |-> EvMessage(<<"Changing to ">> \o t.new_type \o <<"...">>),
             next |-> "modify"]
      [] t.kind = "resize" /\ t.pc = "err_modify" ->
            [ev |-> EvError(<<"Modify failed: ">> \o DebugFmt(t.err)),
             next |-> AfterFatalError]
      [] t.kind = "resize" /\ t.pc = "msg_credit" ->
            [ev |-> EvMessage(<<"Setting credit spec...">>), next |-> "credit"]
      [] t.kind = "resize" /\ t.pc = "err_credit" ->
            [ev |-> EvError(<<"Credit spec failed: ">> \o DebugFmt(t.err)),
             next |-> AfterCreditError]
      [] t.kind = "resize" /\ t.pc = "msg_start" ->
            [ev |-> EvMessage(<<"Starting...">>), next |-> "start"]
      [] t.kind = "resize" /\ t.pc = "err_start" ->
            [ev |-> EvError(<<"Start failed: ">> \o t.err), next |-> AfterFatalError]
      [] t.kind = "resize" /\ t.pc = "msg_done" ->
            [ev |-> EvMessage(<<"Done. Refreshing...">>), next |-> "updated"]
      [] t.pc = "updated" /\ t.kind \in {"stop", "start", "reboot", "force_reboot",
                                         "resize"} ->
            [ev |-> EvInstancesUpdated, next |-> "done"]
      [] OTHER -> [ev |-> <<>>, next |-> ""]

\* An entry of a task's log of remote calls: the operation and how it ended
\* ("ok" or "error"; a poll of wait_until_stopped ends "stopped", "other",
\* "error", or "timeout" when it saw another state after the ceiling).
Call(op, res) == [op |-> op, res |-> res]

\* A step of task i leaves the loop and the application state alone.
TaskFrame(i) ==
    /\ i \in 1..Len(tasks)
    /\ NoneDone
    /\ UNCHANGED <<state, should_quit, lpc, appVars>>

\* A remote call of task i returns, with success or with an error.
RemoteCall(i, ok) ==
    /\ TaskFrame(i)
    /\ CallAt(tasks[i]).op # ""
    /\ tasks' = [tasks EXCEPT ![i] =
           [@ EXCEPT !.calls = Append(@, Call(CallAt(tasks[i]).op,
                                              IF ok THEN "ok" ELSE "error")),
                     !.pc = IF ok THEN CallAt(tasks[i]).ok ELSE CallAt(tasks[i]).err,
                     !.err = IF ok THEN <<>> ELSE RemoteError]]
    /\ chan' = chan

\* ec2.rs 176-211: one round of the loop of wait_until_stopped.  The poll
\* fails, or observes "stopped", or observes another state; then the ceiling
\* has passed or the task sleeps and polls again.
WaitPoll(i, observed, timed_out) ==
    /\ TaskFrame(i)
    /\ tasks[i].pc = "wait"
    /\ observed \in {"error", "stopped", "other"}
    /\ tasks[i].polls + 1 >= MaxPolls => timed_out
    /\ tasks' = [tasks EXCEPT ![i] =
           [@ EXCEPT !.calls = Append(@, Call("describe_instances",
                                              IF observed = "other" /\ timed_out
                                              THEN "timeout" ELSE observed)),
                     !.polls = IF observed = "other" /\ ~timed_out
                               THEN @ + 1 ELSE 0,
                     !.pc = CASE observed = "stopped" -> WaitAt(tasks[i]).ok
                              [] observed = "error" -> WaitAt(tasks[i]).err
                              [] observed = "other" /\ timed_out -> WaitAt(tasks[i]).err
                              [] OTHER -> "wait",
                     !.err = CASE observed = "stopped" -> <<>>
                               [] observed = "error" -> RemoteError
                               [] observed = "other" /\ timed_out -> TimeoutError
                               [] OTHER -> <<>>]]
    /\ chan' = chan

\* main.rs 68-75, 142-149: list_instances returns `list`, or fails.
ListInstances(i, ok, list) ==
    /\ TaskFrame(i)
    /\ tasks[i].kind = "refresh" /\ tasks[i].pc = "list"
    /\ tasks' = [tasks EXCEPT ![i] =
           [@ EXCEPT !.calls = Append(@, Call("describe_instances",
                                              IF ok THEN "ok" ELSE "error")),
                     !.pc = IF ok THEN "send_fetched" ELSE "send_err",
                     !.data = IF ok THEN list ELSE <<>>,
                     !.err = IF ok THEN <<>> ELSE RemoteError]]
    /\ chan' = chan

\* A price fetch that sends its event whatever the call returned.
PricesAt_SendsAnyway(ok) == "send_prices"

\* main.rs 223-229, 235-240: the pc after a price fetch (`if let Ok(prices)`).
PricesAt(ok) == IF ok THEN "send_prices" ELSE "done"

\* A price fetch returns `prices`, or fails.
FetchPrices(i, ok, prices) ==
    /\ TaskFrame(i)
    /\ tasks[i].kind \in {"on_demand", "spot"} /\ tasks[i].pc = "fetch"
    /\ tasks' = [tasks EXCEPT ![i] =
           [@ EXCEPT !.calls = Append(@, Call(IF tasks[i].kind = "on_demand"
                                              THEN "get_products"
                                              ELSE "describe_spot_price_history",
                                              IF ok THEN "ok" ELSE "error")),
                     !.pc = PricesAt(ok),
                     !.data = IF ok THEN prices ELSE <<>>,
                     !.err = IF ok THEN <<>> ELSE RemoteError]]
    /\ chan' = chan

\* A send into a channel without a capacity.
TaskSend_Unbounded(i) ==
    /\ TaskFrame(i)
    /\ SendAt(tasks[i]).next # ""
    /\ chan' = Append(chan, SendAt(tasks[i]).ev)
    /\ tasks' = [tasks EXCEPT ![i] =
           [@ EXCEPT !.sent = Append(@, SendAt(tasks[i]).ev),
                     !.pc = SendAt(tasks[i]).next]]

\* A send that gives up when the channel is full (try_send): the event is
\* lost and the task goes on.
TaskSend_DropsWhenFull(i) ==
    /\ TaskFrame(i)
    /\ SendAt(tasks[i]).next # ""
    /\ chan' = IF Len(chan) < ChannelCapacity
               THEN Append(chan, SendAt(tasks[i]).ev) ELSE chan
    /\ tasks' = [tasks EXCEPT ![i] =
           [@ EXCEPT !.sent = IF Len(chan) < ChannelCapacity
                              THEN Append(@, SendAt(tasks[i]).ev) ELSE @,
                     !.pc = SendAt(tasks[i]).next]]

\* tx.send(event).await: waits while the channel holds ChannelCapacity events.
TaskSend(i) ==
    /\ TaskFrame(i)
    /\ SendAt(tasks[i]).next # ""
    /\ Len(chan) < ChannelCapacity
    /\ chan' = Append(chan, SendAt(tasks[i]).ev)
    /\ tasks' = [tasks EXCEPT ![i] =
           [@ EXCEPT !.sent = Append(@, SendAt(tasks[i]).ev),
                     !.pc = SendAt(tasks[i]).next]]

\* The runtime drops a finished task.
TaskDrop(i) ==
    /\ i \in 1..Len(tasks)
    /\ tasks[i].pc = "done"
    /\ tasks' = SubSeq(tasks, 1, i - 1) \o SubSeq(tasks, i + 1, Len(tasks))
    /\ UNCHANGED <<state, should_quit, lpc, chan, appVars>>

----------------------------------------------------------------------------
(* Initial states: App::new, app.rs 56-107.                                *)

\* AppConfig after load(): the defaults fill what the file leaves out.
Config(flt, default_type) ==
    [filter |-> flt, t_family_credit |-> Some(<<"standard">>),
     default_instance_type |-> Some(default_type)]

InitWith(list, types, has_pricing, cfg) ==
    /\ state = StList
    /\ should_quit = FALSE
    /\ instances = list
    /\ filter = (IF IsSome(cfg.filter) THEN Unwrap(cfg.filter) ELSE <<>>)
    /\ filtered_instances =
           FilteredOf(list, IF IsSome(cfg.filter) THEN Unwrap(cfg.filter) ELSE <<>>)
    /\ list_selected =
           SelectedAfter(FilteredOf(list, IF IsSome(cfg.filter)
                                          THEN Unwrap(cfg.filter) ELSE <<>>),
                         Some(0))
    /\ type_prices = <<>>
    /\ instance_types = types
    /\ pricing_client = has_pricing
    /\ config = cfg
    /\ chan = <<>>
    /\ tasks = <<>>
    /\ lpc = "timer"

----------------------------------------------------------------------------
(* The type picker: one instance, the catalog and the price events that    *)
(* arrive while the picker is open.  The refresh interval does not elapse  *)
(* and the remote side does not answer a resize here (SpecTasks has both). *)

T_t4g_micro == <<"t", "4", "g", ".", "m", "i", "c", "r", "o">>

InstArmMicro ==
    Instance(<<"i", "-", "4">>, None, T_t4g_micro, RUNNING, Some(ARM64), None)

\* What the pricing API answers: c5.large is not priced, two types tie.
OnDemandPrices ==
    (T_m5_large :> 1) @@ (T_t3_micro :> 2) @@ (T_t3a_nano :> 2)

SpotPrices == (T_t3_micro :> 1)

\* What the spot price history answers at another time.
SpotPricesLater == (T_t3_micro :> 3) @@ (T_c5_large :> 1)

\* The characters the user types into the picker.
InputChars == {"c", "t"}

InitPicker ==
    \E list \in {<<InstWeb>>, <<InstArmMicro>>}, has_pricing \in BOOLEAN :
        InitWith(list, Catalog, has_pricing, Config(None, T_t3a_nano))

NextPicker ==
    \/ TimerCheck(FALSE)
    \/ RecvNothing
    \/ RecvBulkOnDemandFetched
    \/ RecvBulkSpotFetched
    \/ NoKey
    \/ QuitCheck
    \/ ListChangeType(FALSE)
    \/ SelEsc
    \/ SelUp
    \/ SelDown
    \/ SelPageUp
    \/ SelPageDown
    \/ SelHome
    \/ SelEnd
    \/ \E c \in InputChars : SelChar(c, FALSE)
    \/ SelBackspace
    \/ SelEnter
    \/ ProcessingDismiss
    \/ \E i \in 1..MaxTasks, prices \in {OnDemandPrices, SpotPrices, SpotPricesLater} :
           /\ FetchPrices(i, TRUE, prices)
           /\ (tasks[i].kind = "on_demand") <=> (prices = OnDemandPrices)
    \/ \E i \in 1..MaxTasks : TaskSend(i)
    \/ \E i \in 1..MaxTasks : TaskDrop(i)

SpecPicker == InitPicker /\ [][NextPicker]_vars

----------------------------------------------------------------------------
(* The workflows: every kind of task, with remote calls that succeed or    *)
(* fail, the events they send and the loop that consumes them.             *)

InitTasks ==
    \E list \in {<<InstWeb>>} :
        InitWith(list, Catalog, TRUE, Config(None, T_t3a_nano))

\* The user and the timer start something only when no task is running and
\* no event is queued.
Quiet == tasks = <<>> /\ chan = <<>>

NextTasks ==
    \/ \E e \in BOOLEAN : (e => Quiet) /\ TimerCheck(e)
    \/ RecvNothing
    \/ RecvInstancesFetched
    \/ RecvBulkOnDemandFetched
    \/ RecvBulkSpotFetched
    \/ RecvInstancesUpdated
    \/ RecvError
    \/ RecvMessage
    \/ NoKey
    \/ QuitCheck
    \/ Quiet /\ ListChangeType(FALSE)
    \/ Quiet /\ ListStop
    \/ Quiet /\ ListStart
    \/ ListReboot
    \/ Quiet /\ ConfirmYes
    \/ Quiet /\ ConfirmForce
    \/ ConfirmNo
    \/ IgnoredKey("ConfirmReboot", FALSE)
    \/ SelEsc
    \/ SelDown
    \/ Quiet /\ SelEnter
    \/ ProcessingDismiss
    \/ \E i \in 1..MaxTasks, ok \in BOOLEAN : RemoteCall(i, ok)
    \/ \E i \in 1..MaxTasks, o \in {"error", "stopped", "other"}, t \in BOOLEAN :
           WaitPoll(i, o, t)
    \/ \E i \in 1..MaxTasks, ok \in BOOLEAN, list \in {<<InstDb>>, <<>>} :
           ListInstances(i, ok, list)
    \/ \E i \in 1..MaxTasks, ok \in BOOLEAN :
           FetchPrices(i, ok, IF tasks[i].kind = "on_demand"
                              THEN OnDemandPrices ELSE SpotPrices)
    \/ \E i \in 1..MaxTasks : TaskSend(i)
    \/ \E i \in 1..MaxTasks : TaskDrop(i)

SpecTasks == InitTasks /\ [][NextTasks]_vars

\* The workflows under fair scheduling: a poll of wait_until_stopped returns
\* (the remote call returns and the two-second sleep ends), and a finished
\* task is dropped.
SpecTasksFair ==
    /\ SpecTasks
    /\ WF_vars(\E i \in 1..MaxTasks, o \in {"error", "stopped", "other"},
                  t \in BOOLEAN : WaitPoll(i, o, t))
    /\ WF_vars(\E i \in 1..MaxTasks : TaskDrop(i))

----------------------------------------------------------------------------
(* The keys of every mode, the instance filter and the quit flag: a fleet  *)
(* of three instances that a refresh may replace, a filter of up to        *)
(* MaxFilter characters, and Ctrl-C in each mode.                          *)

\* The fleets list_instances returns.
Fleets == {<<InstWeb, InstDb, InstArmMicro>>, <<InstDb>>, <<>>}

\* The characters the user types into the filter.
FilterChars == {"W", "e", "5", "z", "c"}

InitKeys ==
    InitWith(<<InstWeb, InstDb, InstArmMicro>>, Catalog, FALSE,
             Config(None, T_t3a_nano))

NextKeys ==
    \/ \E e \in BOOLEAN : (e => Quiet) /\ TimerCheck(e)
    \/ RecvNothing
    \/ RecvInstancesFetched
    \/ RecvBulkSpotFetched
    \/ RecvError
    \/ NoKey
    \/ QuitCheck
    \/ ListQuit
    \/ ListFilter
    \/ filtered_instances # <<>> /\ ListDown
    \/ filtered_instances # <<>> /\ ListUp
    \/ \E ctrl \in BOOLEAN : Quiet /\ ListChangeType(ctrl)
    \/ ListReboot
    \/ ConfirmNo
    \/ FilterClose
    \/ \E c \in FilterChars, ctrl \in BOOLEAN : FilterChar(c, ctrl)
    \/ FilterBackspace
    \/ SelEsc
    \/ \E ctrl \in BOOLEAN : SelChar("c", ctrl)
    \/ ProcessingDismiss
    \/ \E tag \in {"ConfirmReboot", "Processing"} : IgnoredKey(tag, TRUE)
    \/ \E i \in 1..MaxTasks, ok \in BOOLEAN, list \in Fleets :
           ListInstances(i, ok, list)
    \/ \E i \in 1..MaxTasks, ok \in BOOLEAN : FetchPrices(i, ok, SpotPrices)
    \/ \E i \in 1..MaxTasks : TaskSend(i)
    \/ \E i \in 1..MaxTasks : TaskDrop(i)

SpecKeys == InitKeys /\ [][NextKeys]_vars

----------------------------------------------------------------------------
(* The channel: resizes that run side by side while the user goes on       *)
(* pressing keys, so that tasks send faster than the loop consumes.  The   *)
(* instance has no availability zone (no price fetch) and every remote     *)
(* call succeeds (SpecTasks has the failures).  The arm64 instance is      *)
(* resized to the burstable t4g.nano, the x86_64 one to the configured     *)
(* default m5.large, which is not burstable.                               *)

InstBatch ==
    Instance(<<"i", "-", "5">>, Some(<<"B", "a", "t", "c", "h">>), T_t3_micro,
             RUNNING, Some(X86_64), None)

InitChannel ==
    \/ InitWith(<<InstArmMicro>>, Catalog, FALSE, Config(None, T_t3a_nano))
    \/ InitWith(<<InstBatch>>, Catalog, FALSE, Config(None, T_m5_large))

NextChannel ==
    \/ TimerCheck(FALSE)
    \/ RecvNothing
    \/ RecvInstancesFetched
    \/ RecvInstancesUpdated
    \/ RecvMessage
    \/ NoKey
    \/ QuitCheck
    \/ ListFilter
    \/ ListChangeType(FALSE)
    \/ ListReboot
    \/ ConfirmNo
    \/ FilterClose
    \/ SelEsc
    \/ SelEnter
    \/ ProcessingDismiss
    \/ \E i \in 1..MaxTasks : RemoteCall(i, TRUE)
    \/ \E i \in 1..MaxTasks : WaitPoll(i, "stopped", FALSE)
    \/ \E i \in 1..MaxTasks : ListInstances(i, TRUE, instances)
    \/ \E i \in 1..MaxTasks : TaskSend(i)
    \/ \E i \in 1..MaxTasks : TaskDrop(i)

SpecChannel == InitChannel /\ [][NextChannel]_vars

----------------------------------------------------------------------------
(* The instance filter as a function of the fleet and the filter text:     *)
(* App::new applies it to the fleet list_instances returned and to the     *)
(* configured filter, the filter input to each text the user types.  Two   *)
(* instances of one fleet have no name.                                    *)

InitFilter ==
    \E list \in {<<InstWeb, InstDb, InstArmMicro>>,
                 <<InstWeb, InstArmMicro, InstDb, InstArm>>,
                 <<InstArmMicro>>, <<>>},
       flt \in {None, Some(<<"W">>)} :
        InitWith(list, Catalog, FALSE, Config(flt, T_t3a_nano))

NextFilter ==
    \/ TimerCheck(FALSE)
    \/ RecvNothing
    \/ NoKey
    \/ QuitCheck
    \/ ListFilter
    \/ FilterClose
    \/ \E c \in {"N", "e", "z"} : FilterChar(c, FALSE)
    \/ FilterBackspace

SpecFilter == InitFilter /\ [][NextFilter]_vars

----------------------------------------------------------------------------
(* The periodic refresh: list_instances returns one of two fleets, other   *)
(* than the one the program started with, and refreshes overlap; the user  *)
(* edits the filter and moves the highlight meanwhile, and opens the type  *)
(* picker on the instance i-1 only.  The stop call of a resize fails.      *)

InitRefresh ==
    InitWith(<<InstWeb, InstDb>>, Catalog, FALSE, Config(None, T_t3a_nano))

NextRefresh ==
    \/ \E e \in BOOLEAN : TimerCheck(e)
    \/ RecvNothing
    \/ RecvInstancesFetched
    \/ NoKey
    \/ QuitCheck
    \/ RecvError
    \/ ListFilter
    \/ ListDown
    \/ ListUp
    \* PageDown, PageUp, Home, End (main.rs 181-201)
    \/ ListSelect(IF IsSome(list_selected)
                  THEN Min(Unwrap(list_selected) + PageStep,
                           SatSub(Len(filtered_instances), 1))
                  ELSE 0)
    \/ ListSelect(IF IsSome(list_selected)
                  THEN SatSub(Unwrap(list_selected), PageStep)
                  ELSE 0)
    \/ ListSelect(0)
    \/ ListSelect(SatSub(Len(filtered_instances), 1))
    \/ /\ SelectedInstance(filtered_instances, list_selected) = Some(InstWeb)
       /\ ListChangeType(FALSE)
    \/ FilterClose
    \/ FilterChar("W", FALSE)
    \/ FilterBackspace
    \/ SelEsc
    \/ SelEnter
    \/ ProcessingDismiss
    \/ \E i \in 1..MaxTasks : RemoteCall(i, FALSE)
    \/ \E i \in 1..MaxTasks, list \in {<<InstDb>>, <<InstArm, InstWeb>>} :
           ListInstances(i, TRUE, list)
    \/ \E i \in 1..MaxTasks : TaskSend(i)
    \/ \E i \in 1..MaxTasks : TaskDrop(i)

SpecRefresh == InitRefresh /\ [][NextRefresh]_vars

----------------------------------------------------------------------------
(* Events that arrive in another mode than the one their workflow was      *)
(* started in: the user stops the instance when nothing else is running,   *)
(* dismisses the progress display and goes on to the filter input, the     *)
(* type picker or the reboot dialog while the stop call, the refresh and   *)
(* the price fetches are still on their way.                               *)

InitModes == InitWith(<<InstWeb>>, Catalog, TRUE, Config(None, T_t3a_nano))

NextModes ==
    \/ TimerCheck(FALSE)
    \/ RecvNothing
    \/ RecvInstancesFetched
    \/ RecvBulkOnDemandFetched
    \/ RecvBulkSpotFetched
    \/ RecvInstancesUpdated
    \/ RecvError
    \/ RecvMessage
    \/ NoKey
    \/ QuitCheck
    \/ ListFilter
    \/ ListChangeType(FALSE)
    \/ Quiet /\ ListStop
    \/ ListReboot
    \/ ConfirmNo
    \/ FilterClose
    \/ FilterChar("W", FALSE)
    \/ SelEsc
    \/ SelDown
    \/ ProcessingDismiss
    \/ \E i \in 1..MaxTasks, ok \in BOOLEAN : RemoteCall(i, ok)
    \/ \E i \in 1..MaxTasks : ListInstances(i, TRUE, <<InstWeb, InstDb>>)
    \/ \E i \in 1..MaxTasks :
           FetchPrices(i, TRUE, IF tasks[i].kind = "on_demand"
                                THEN OnDemandPrices ELSE SpotPrices)
    \/ \E i \in 1..MaxTasks : TaskSend(i)
    \/ \E i \in 1..MaxTasks : TaskDrop(i)

SpecModes == InitModes /\ [][NextModes]_vars

----------------------------------------------------------------------------
(* Navigation in a long list of options: a catalog of 22 x86_64 types,     *)
(* more than a page of PageStep, and instances without an availability     *)
(* zone, so that no price is fetched.                                      *)

\* What describe_instance_types may have answered in a larger region, sorted
\* by name.
WideCatalog ==
    << TypeInfo(<<"c", "4", ".", "l", "a", "r", "g", "e">>, <<X86_64>>),
       TypeInfo(<<"c", "5", ".", "l", "a", "r", "g", "e">>, <<X86_64>>),
       TypeInfo(<<"c", "5", "a", ".", "l", "a", "r", "g", "e">>, <<X86_64>>),
       TypeInfo(<<"c", "5", "n", ".", "l", "a", "r", "g", "e">>, <<X86_64>>),
       TypeInfo(<<"c", "6", "a", ".", "l", "a", "r", "g", "e">>, <<X86_64>>),
       TypeInfo(<<"c", "6", "i", ".", "l", "a", "r", "g", "e">>, <<X86_64>>),
       TypeInfo(<<"d", "3", ".", "x", "l", "a", "r", "g", "e">>, <<X86_64>>),
       TypeInfo(<<"i", "3", ".", "l", "a", "r", "g", "e">>, <<X86_64>>),
       TypeInfo(<<"m", "4", ".", "l", "a", "r", "g", "e">>, <<X86_64>>),
       TypeInfo(<<"m", "5", ".", "l", "a", "r", "g", "e">>, <<X86_64>>),
       TypeInfo(<<"m", "5", "a", ".", "l", "a", "r", "g", "e">>, <<X86_64>>),
       TypeInfo(<<"m", "6", "a", ".", "l", "a", "r", "g", "e">>, <<X86_64>>),
       TypeInfo(<<"m", "6", "i", ".", "l", "a", "r", "g", "e">>, <<X86_64>>),
       TypeInfo(<<"r", "4", ".", "l", "a", "r", "g", "e">>, <<X86_64>>),
       TypeInfo(<<"r", "5", ".", "l", "a", "r", "g", "e">>, <<X86_64>>),
       TypeInfo(<<"r", "5", "a", ".", "l", "a", "r", "g", "e">>, <<X86_64>>),
       TypeInfo(<<"r", "6", "i", ".", "l", "a", "r", "g", "e">>, <<X86_64>>),
       TypeInfo(<<"t", "2", ".", "m", "i", "c", "r", "o">>, <<X86_64>>),
       TypeInfo(<<"t", "3", ".", "m", "i", "c", "r", "o">>, <<X86_64>>),
       TypeInfo(<<"t", "3", ".", "n", "a", "n", "o">>, <<X86_64>>),
       TypeInfo(<<"t", "3", "a", ".", "n", "a", "n", "o">>, <<X86_64>>),
       TypeInfo(<<"x", "1", "e", ".", "x", "l", "a", "r", "g", "e">>, <<X86_64>>) >>

InitNav ==
    \E list \in {<<InstDb>>, <<InstArmMicro>>} :
        InitWith(list, WideCatalog, FALSE, Config(None, T_t3a_nano))

NextNav ==
    \/ TimerCheck(FALSE)
    \/ RecvNothing
    \/ NoKey
    \/ QuitCheck
    \/ ListChangeType(FALSE)
    \/ SelEsc
    \/ SelUp
    \/ SelDown
    \/ SelPageUp
    \/ SelPageDown
    \/ SelHome
    \/ SelEnd

SpecNav == InitNav /\ [][NextNav]_vars

----------------------------------------------------------------------------
(* Properties of the workflows (SpecTasks).                                *)

\* The events of a sequence that are Errors whose text begins with `prefix`.
ErrorsWith(sent, prefix) ==
    {k \in 1..Len(sent) : sent[k].type = "Error" /\ sent[k].msg[1] = prefix}

\* The four steps of the resize saga whose failure is fatal, by the text
\* their Error begins with, and the remote operation each one calls.
FatalSteps ==
    {<<"Stop failed: ", "stop_instances">>,
     <<"Wait failed: ", "describe_instances">>,
     <<"Modify failed: ", "modify_instance_attribute">>,
     <<"Start failed: ", "start_instances">>}

\* A call of the log ended in failure.
CallFailed(c) == c.res \in {"error", "timeout"}

\* The position of an operation in the saga's order.
SagaRank(op) ==
    CASE op = "stop_instances" -> 1
      [] op = "describe_instances" -> 2
      [] op = "modify_instance_attribute" -> 3
      [] op = "modify_instance_credit_specification" -> 4
      [] op = "start_instances" -> 5
      [] OTHER -> 0

SagaTasks == {i \in 1..Len(tasks) : tasks[i].kind = "resize"}

\* C1: the resize saga runs stop, wait, modify, (credit), start in this order
\* and stops at the first of stop, wait, modify, start that fails: no remote
\* call follows the failed one, so nothing is rolled back; the failure is
\* reported by one Error that names the step and is the last event of the
\* saga, so neither "Done. Refreshing..." nor InstancesUpdated follows; after
\* "Modify failed" the saga has made no start_instances call.
C1_SagaAbortsAtFirstFailure ==
    \A i \in SagaTasks :
        LET t == tasks[i]
            n == Len(t.calls)
        IN  /\ n >= 1 => t.calls[1].op = "stop_instances"
            /\ \A k \in 1..n :
                   /\ SagaRank(t.calls[k].op) >= 1
                   /\ k < n => /\ SagaRank(t.calls[k].op) <= SagaRank(t.calls[k + 1].op)
                               /\ SagaRank(t.calls[k].op) = SagaRank(t.calls[k + 1].op)
                                      => t.calls[k].op = "describe_instances"
                   /\ (k < n /\ CallFailed(t.calls[k]))
                          => t.calls[k].op = "modify_instance_credit_specification"
            /\ \A step \in FatalSteps :
                   /\ \A k \in ErrorsWith(t.sent, step[1]) :
                          /\ k = Len(t.sent)
                          /\ t.pc = "done"
                          /\ n >= 1 /\ t.calls[n].op = step[2] /\ CallFailed(t.calls[n])
                   /\ (t.pc = "done" /\ n >= 1 /\ t.calls[n].op = step[2]
                           /\ CallFailed(t.calls[n]))
                          => ErrorsWith(t.sent, step[1]) = {Len(t.sent)}
            /\ ErrorsWith(t.sent, "Modify failed: ") # {}
                   => \A k \in 1..n : t.calls[k].op # "start_instances"
            /\ (n >= 1 /\ CallFailed(t.calls[n])
                    /\ t.calls[n].op # "modify_instance_credit_specification")
                   => \A k \in 1..Len(t.sent) :
                          /\ t.sent[k] # EvInstancesUpdated
                          /\ t.sent[k] # EvMessage(<<"Done. Refreshing...">>)

\* A saga that has ended on a failed modification: stopped, waited, modified,
\* reported, and made no further call.
C1_Witness ==
    \E i \in SagaTasks :
        /\ tasks[i].pc = "done"
        /\ Len(tasks[i].calls) = 3
        /\ tasks[i].calls[3] = Call("modify_instance_attribute", "error")
        /\ ErrorsWith(tasks[i].sent, "Modify failed: ") # {}

\* The state shows an error: Processing("Error: ...").
ErrorShown ==
    /\ state.tag = "Processing"
    /\ Len(state.msg) >= 1
    /\ state.msg[1] = "Error: "

\* C2: once the state is Processing with an "Error: ..." message, only the
\* key press that dismisses Processing (Esc or Enter) changes it; no event
\* taken from the channel clears or overwrites it.
C2_ErrorLeftOnlyByKey ==
    [][(ErrorShown /\ state' # state) => ProcessingDismiss]_vars

\* The failed calls of a task's log, and the Errors among its events.
FailedCalls(t) == {k \in 1..Len(t.calls) : CallFailed(t.calls[k])}

ErrorsSent(t) == {k \in 1..Len(t.sent) : t.sent[k].type = "Error"}

PriceKinds == {"on_demand", "spot"}

\* C3 as stated: when any background task, the two price fetches included,
\* has ended, each of its failed remote calls has produced an Error event,
\* and the loop has not stopped.
C3_EveryFailureBecomesAnError ==
    /\ lpc # "exited"
    /\ \A i \in 1..Len(tasks) :
           (tasks[i].pc = "done" /\ FailedCalls(tasks[i]) # {})
               => ErrorsSent(tasks[i]) # {}

\* C3: when a task other than the two price fetches has ended, it has sent
\* one Error event for each of its failed remote calls; a price fetch whose
\* call failed has ended without sending anything; no failure stops the loop.
C3_FailuresBecomeErrorsExceptPrices ==
    /\ lpc # "exited"
    /\ \A i \in 1..Len(tasks) :
           LET t == tasks[i] IN
           t.pc = "done" =>
               /\ t.kind \notin PriceKinds
                      => Cardinality(ErrorsSent(t)) = Cardinality(FailedCalls(t))
               /\ (t.kind \in PriceKinds /\ FailedCalls(t) # {}) => t.sent = <<>>

\* A forced reboot whose wait ran into the ceiling has ended with its Error.
C3_Witness ==
    \E i \in 1..Len(tasks) :
        /\ tasks[i].pc = "done"
        /\ tasks[i].kind = "force_reboot"
        /\ tasks[i].calls[Len(tasks[i].calls)].res = "timeout"
        /\ tasks[i].sent = <<EvError(<<"Forced Reboot failed: ">> \o TimeoutError)>>

\* The instance highlighted in the list, if any.
Highlighted ==
    IF IsSome(list_selected) /\ Unwrap(list_selected) < Len(filtered_instances)
    THEN Some(filtered_instances[Unwrap(list_selected) + 1])
    ELSE None

\* The type Enter chooses in the picker state st: the only option; else the
\* option at the index; else the input when it is an option; else nothing.
Chosen(st) ==
    IF Len(st.options) = 1 THEN Some(st.options[1])
    ELSE IF IsSome(st.selected_index)
            /\ Unwrap(st.selected_index) < Len(st.options)
    THEN Some(st.options[Unwrap(st.selected_index) + 1])
    ELSE IF \E k \in 1..Len(st.options) : st.options[k] = st.input
    THEN Some(st.input)
    ELSE None

\* What Enter does with the chosen type `new_type` for the instance `inst`:
\* nothing but a return to List when it is the instance's type, else one new
\* resize saga for that instance and type, and Processing.
ChoiceOutcome(new_type, inst) ==
    IF new_type = inst.instance_type
    THEN state' = StList /\ tasks' = tasks
    ELSE /\ state'.tag = "Processing"
         /\ Len(tasks') = Len(tasks) + 1
         /\ SubSeq(tasks', 1, Len(tasks)) = tasks
         /\ LET t == tasks'[Len(tasks')]
            IN  /\ t.kind = "resize"
                /\ t.instance_id = inst.id
                /\ t.new_type = new_type
                /\ t.calls = <<>> /\ t.sent = <<>>

C7_RebootGate ==
    [][(ListReboot /\ IsSome(Highlighted))
          => LET inst == Unwrap(Highlighted) IN
             /\ inst.state = RUNNING => state' = StConfirmReboot(inst.id)
             /\ inst.state # RUNNING
                    => /\ state'.tag = "Processing"
                       /\ state'.msg[1] = "Error: "
                       /\ state'.msg[2] = "Cannot reboot instance "
             /\ tasks' = tasks
             /\ chan' = chan]_vars

\* r was pressed on a stopped instance.
C7_Witness ==
    /\ ErrorShown
    /\ state.msg[2] = "Cannot reboot instance "
    /\ lpc = "check"
    /\ IsSome(Highlighted) /\ Unwrap(Highlighted).state = STOPPED
    /\ tasks = <<>>

CreditCalls(t) ==
    {k \in 1..Len(t.calls) :
        t.calls[k].op = "modify_instance_credit_specification"}

\* C8: the saga calls modify_instance_credit_specification only when the
\* new type name begins with "t"; a saga that has ended after this call
\* failed has sent an Error for it and has still called start_instances, and
\* when that call succeeded it has sent "Done. Refreshing..." and
\* InstancesUpdated last.
C8_CreditFailureIsNotFatal ==
    \A i \in SagaTasks :
        LET t == tasks[i]
            n == Len(t.calls)
            m == Len(t.sent)
        IN  /\ CreditCalls(t) # {} => (Len(t.new_type) >= 1 /\ t.new_type[1] = "t")
            /\ (t.pc = "done" /\ \E k \in CreditCalls(t) : CallFailed(t.calls[k]))
                   => /\ ErrorsWith(t.sent, "Credit spec failed: ") # {}
                      /\ t.calls[n].op = "start_instances"
                      /\ t.calls[n].res = "ok"
                             => /\ m >= 2
                                /\ t.sent[m - 1] = EvMessage(<<"Done. Refreshing...">>)
                                /\ t.sent[m] = EvInstancesUpdated

\* A saga whose credit call failed has started the instance and finished.
C8_Witness ==
    \E i \in SagaTasks :
        /\ tasks[i].pc = "done"
        /\ \E k \in CreditCalls(tasks[i]) : CallFailed(tasks[i].calls[k])
        /\ tasks[i].calls[Len(tasks[i].calls)] = Call("start_instances", "ok")
        /\ tasks[i].sent[Len(tasks[i].sent)] = EvInstancesUpdated

\* Some step of task i: a remote call returning, or a send.
TaskStep(i) ==
    \/ \E ok \in BOOLEAN : RemoteCall(i, ok)
    \/ \E o \in {"error", "stopped", "other"}, t \in BOOLEAN : WaitPoll(i, o, t)
    \/ \E ok \in BOOLEAN : ListInstances(i, ok, <<>>)
    \/ \E ok \in BOOLEAN : FetchPrices(i, ok, <<>>)
    \/ TaskSend(i)

\* C9: a step of the loop (the timer, an event, a key, the quit check)
\* removes no task and changes no task's position, calls or events; it may
\* only add tasks.  And whatever the state of the loop, a task that has not
\* ended can take its next step, unless it waits to send on a full channel.
C9_NoCancellation ==
    /\ [][lpc' # lpc
             => /\ Len(tasks') >= Len(tasks)
                /\ SubSeq(tasks', 1, Len(tasks)) = tasks]_vars
    /\ [](\A i \in 1..Len(tasks) :
              (NoneDone /\ (SendAt(tasks[i]).next # "" => Len(chan) < ChannelCapacity))
                  => ENABLED TaskStep(i))

\* The user has left Processing and the saga has gone through its last call.
C9_Witness ==
    /\ state.tag = "List"
    /\ chan = <<>>
    /\ \E i \in SagaTasks :
           /\ tasks[i].pc = "msg_done"
           /\ tasks[i].calls[Len(tasks[i].calls)] = Call("start_instances", "ok")

----------------------------------------------------------------------------
(* Properties of the type picker (SpecPicker).                             *)

\* The options are in ascending order of on-demand price, then of name.
InPriceOrder(tp, opts) ==
    \A j, k \in 1..Len(opts) : j < k => ~PriceLess(tp, opts[k], opts[j])

SameEntries(a, b) ==
    /\ Len(a) = Len(b)
    /\ {a[k] : k \in 1..Len(a)} = {b[k] : k \in 1..Len(b)}

\* C4: when a BulkOnDemandFetched event is consumed in SelectingType, its
\* prices are merged into the price cache, the spot prices staying as they
\* were; if default_mode_active is false the options are the same entries
\* re-sorted by the merged prices and selected_index is Some(0), or None when
\* there is no option, input and mode unchanged; if default_mode_active is
\* true the state is exactly as it was.
C4_OnDemandEventAndDefaultMode ==
    [][(RecvBulkOnDemandFetched /\ state.tag = "SelectingType")
          => LET prices == Head(chan).prices IN
             /\ DOMAIN type_prices' = DOMAIN type_prices \cup DOMAIN prices
             /\ \A t \in DOMAIN prices :
                    /\ type_prices'[t].on_demand = Some(prices[t])
                    /\ type_prices'[t].spot =
                           (IF t \in DOMAIN type_prices THEN type_prices[t].spot
                            ELSE None)
             /\ \A t \in DOMAIN type_prices \ DOMAIN prices :
                    type_prices'[t] = type_prices[t]
             /\ IF state.default_mode_active
                THEN state' = state
                ELSE /\ state'.tag = "SelectingType"
                     /\ state'.input = state.input
                     /\ state'.default_mode_active = FALSE
                     /\ SameEntries(state'.options, state.options)
                     /\ InPriceOrder(type_prices', state'.options)
                     /\ state'.selected_index =
                            (IF Len(state.options) = 0 THEN None ELSE Some(0))]_vars

\* The event has re-ordered the full list of a picker that had left default
\* mode: the cheapest type first, the unpriced type last.
C4_Witness ==
    /\ lpc = "input"
    /\ state.tag = "SelectingType"
    /\ ~state.default_mode_active
    /\ state.options = <<T_m5_large, T_t3_micro, T_t3a_nano, T_c5_large>>
    /\ state.selected_index = Some(0)
    /\ DOMAIN type_prices = DOMAIN OnDemandPrices

\* The type Enter has acted on for the highlighted instance `inst`: the
\* instance's own type on a return to List, the new type of the saga just
\* spawned, or none.
ActedOn(inst) ==
    IF state'.tag = "List" /\ tasks' = tasks THEN Some(inst.instance_type)
    ELSE IF Len(tasks') = Len(tasks) + 1 /\ tasks'[Len(tasks')].kind = "resize"
    THEN Some(tasks'[Len(tasks')].new_type)
    ELSE None

\* C5: on Enter in SelectingType the type acted on is the only option when
\* there is exactly one, whatever the index; else the option at
\* selected_index when there is one; else the input when it equals an
\* option; else no type is chosen, and the key changes no state and spawns
\* no task.
C5_EnterSelectionRule ==
    [][SelEnter
          => /\ IsSome(Highlighted) => ActedOn(Unwrap(Highlighted)) = Chosen(state)
             /\ ~IsSome(Chosen(state))
                    => /\ state' = state /\ tasks' = tasks /\ chan' = chan
                       /\ UNCHANGED appVars]_vars

\* Enter on the arm64 instance, whose picker has one option, has spawned the
\* saga for that option.
C5_Witness ==
    /\ state.tag = "Processing"
    /\ Highlighted = Some(InstArmMicro)
    /\ \E i \in 1..Len(tasks) :
           /\ tasks[i].kind = "resize"
           /\ tasks[i].new_type = T_t4g_nano
           /\ tasks[i].instance_id = InstArmMicro.id

InDefaultMode == state.tag = "SelectingType" /\ state.default_mode_active

C11_DefaultModeEntry ==
    [][(state'.tag = "SelectingType" /\ state'.default_mode_active)
          => \/ InDefaultMode
             \/ state.tag = "List" /\ ListChangeType(FALSE)
             \/ /\ state.tag = "SelectingType"
                /\ SelBackspace
                /\ Len(state.input) <= 1]_vars

\* Default mode is on with prices cached and no fetch under way: the picker
\* has come back to it.
C11_Witness ==
    /\ InDefaultMode
    /\ lpc = "check"
    /\ DOMAIN type_prices # {}
    /\ tasks = <<>> /\ chan = <<>>
    /\ Highlighted = Some(InstWeb)

----------------------------------------------------------------------------
(* Properties of the keys and the instance filter (SpecKeys).              *)

\* p occurs in s as a run of consecutive characters.
IsSubstr(p, s) ==
    \E k \in 0..Len(s) :
        k + Len(p) <= Len(s) /\ SubSeq(s, k + 1, k + Len(p)) = p

\* The instances the filter text lets through: the lower-cased text occurs
\* in the lower-cased id, name (when there is one), type or state.
Visible(all, flt) ==
    LET low == ToLower(flt) IN
    {all[k] : k \in {j \in 1..Len(all) :
        \/ IsSubstr(low, ToLower(all[j].id))
        \/ all[j].name # None /\ IsSubstr(low, ToLower(all[j].name[1]))
        \/ IsSubstr(low, ToLower(all[j].instance_type))
        \/ IsSubstr(low, ToLower(all[j].state))}}

\* C12: the visible list holds exactly the instances for which the
\* lower-cased filter is a substring of the lower-cased id, name, type or
\* state, each once; an instance without a name is not matched by its name;
\* with the empty filter every instance is visible.
C12_FilterMatching ==
    LET visible == Visible(instances, filter) IN
    /\ {filtered_instances[k] : k \in 1..Len(filtered_instances)} = visible
    /\ Len(filtered_instances) = Cardinality(visible)
    /\ filter = <<>> => Len(filtered_instances) = Len(instances)

\* The filter "We" shows, of three instances, the one named "Web".
C12_Witness ==
    /\ filter = <<"W", "e">>
    /\ Len(instances) = 3
    /\ filtered_instances = <<InstWeb>>

\* A step that applies the instance filter: a key of the filter input, or a
\* consumed InstancesFetched.
FilterApplied ==
    \/ \E c \in FilterChars, ctrl \in BOOLEAN : FilterChar(c, ctrl)
    \/ FilterBackspace
    \/ RecvInstancesFetched

\* C13: after every application of the filter a selection still in range is
\* kept; otherwise the selection is 0 when the visible list is non-empty and
\* none when it is empty.
C13_SelectionAfterFiltering ==
    [][FilterApplied
          => list_selected' =
                 (IF IsSome(list_selected)
                     /\ Unwrap(list_selected) < Len(filtered_instances')
                  THEN list_selected
                  ELSE IF Len(filtered_instances') > 0 THEN Some(0)
                  ELSE None)]_vars

\* A Ctrl-C key press in List, FilterInput, SelectingType, ConfirmReboot or
\* Processing.
CtrlC ==
    \/ ListChangeType(TRUE)
    \/ FilterChar("c", TRUE)
    \/ SelChar("c", TRUE)
    \/ IgnoredKey("ConfirmReboot", TRUE)
    \/ IgnoredKey("Processing", TRUE)

\* C17: in each of the five modes Ctrl-C sets the quit flag and leads to the
\* quit check of the same iteration; the quit check, with the flag set,
\* leaves the loop; and the loop, once left, takes no further step.
C17_CtrlCQuits ==
    /\ [][CtrlC => (should_quit' /\ lpc' = "check")]_vars
    /\ [][(lpc = "check" /\ should_quit /\ lpc' # lpc) => lpc' = "exited"]_vars
    /\ [][lpc = "exited" => (lpc' = "exited" /\ state' = state)]_vars

\* The loop has ended with the reboot dialog open: Ctrl-C was pressed there.
C17_Witness ==
    /\ lpc = "exited"
    /\ should_quit
    /\ state.tag = "ConfirmReboot"

----------------------------------------------------------------------------
(* Further properties of the type picker (SpecPicker).                     *)

\* The architecture the picker filters by: the highlighted instance's, and
\* x86_64 when it has none.
PickerArch ==
    IF Highlighted # None /\ Highlighted[1].architecture # None
    THEN Highlighted[1].architecture[1]
    ELSE X86_64

\* The type names of the catalog that run on PickerArch and contain `input`.
Candidates(input) ==
    {instance_types[k].name : k \in {j \in 1..Len(instance_types) :
        /\ \E a \in 1..Len(instance_types[j].architectures) :
               instance_types[j].architectures[a] = PickerArch
        /\ IsSubstr(input, instance_types[j].name)}}

HasOnDemand(tp, t) == t \in DOMAIN tp /\ tp[t].on_demand # None

\* a comes before b: by ascending on-demand price, a type of unknown price
\* after every priced one, ties by ascending name.
ComesBefore(tp, a, b) ==
    \/ /\ HasOnDemand(tp, a) /\ HasOnDemand(tp, b)
       /\ \/ tp[a].on_demand[1] < tp[b].on_demand[1]
          \/ tp[a].on_demand[1] = tp[b].on_demand[1] /\ StrLess(a, b)
    \/ HasOnDemand(tp, a) /\ ~HasOnDemand(tp, b)
    \/ ~HasOnDemand(tp, a) /\ ~HasOnDemand(tp, b) /\ StrLess(a, b)

\* The picker state st shows the filter result for `input`.
IsFilterResult(st, input) ==
    /\ st.tag = "SelectingType"
    /\ st.input = input
    /\ {st.options[k] : k \in 1..Len(st.options)} = Candidates(input)
    /\ \A j, k \in 1..Len(st.options) :
           j < k => ComesBefore(type_prices, st.options[j], st.options[k])
    /\ st.selected_index = (IF Len(st.options) = 0 THEN None ELSE Some(0))

MergedInto(f, other, prices) ==
    /\ DOMAIN type_prices' = DOMAIN type_prices \cup DOMAIN prices
    /\ \A t \in DOMAIN prices : type_prices'[t][f] = Some(prices[t])
    /\ \A t \in DOMAIN type_prices \ DOMAIN prices :
           type_prices'[t][f] = type_prices[t][f]
    /\ \A t \in DOMAIN type_prices' :
           type_prices'[t][other] =
               (IF t \in DOMAIN type_prices THEN type_prices[t][other] ELSE None)

\* C19: a consumed BulkOnDemandFetched sets the on-demand price of exactly
\* the types it carries, overwriting an earlier value, and leaves every spot
\* price and the other on-demand prices as they were; BulkSpotFetched does
\* the same for the spot prices; no other step changes the price cache, and
\* no step removes an entry.
C19_PriceMergePerField ==
    /\ [][RecvBulkOnDemandFetched
             => MergedInto("on_demand", "spot", Head(chan).prices)]_vars
    /\ [][RecvBulkSpotFetched
             => MergedInto("spot", "on_demand", Head(chan).prices)]_vars
    /\ [][type_prices' # type_prices
             => (RecvBulkOnDemandFetched \/ RecvBulkSpotFetched)]_vars
    /\ [][DOMAIN type_prices \subseteq DOMAIN type_prices']_vars

\* The later spot answer came first and the earlier one overwrote its spot
\* price of t3.micro, next to the on-demand price and to the spot price of
\* c5.large, which has no on-demand price.
C19_Witness ==
    /\ DOMAIN type_prices = {T_c5_large, T_m5_large, T_t3_micro, T_t3a_nano}
    /\ type_prices[T_t3_micro] = [on_demand |-> Some(2), spot |-> Some(1)]
    /\ type_prices[T_c5_large] = [on_demand |-> None, spot |-> Some(1)]

\* The kinds of the tasks a step has added at the end of `tasks`.
Spawned ==
    [k \in 1..(Len(tasks') - Len(tasks)) |-> tasks'[Len(tasks) + k].kind]

----------------------------------------------------------------------------
(* Properties of the channel (SpecChannel).                                *)

\* The order of the phases of one iteration of the loop.
PhaseOrder ==
    {<<"timer", "events">>, <<"events", "input">>, <<"input", "check">>,
     <<"check", "timer">>, <<"check", "exited">>}

\* C14: the channel loses an event only in the events phase of an iteration,
\* which then moves on to the input phase, and what it loses is its head, the
\* rest staying queued in order; every other step leaves the channel as it is
\* or appends one event; the phases follow each other in order, so that an
\* iteration has one events phase; and on an empty channel the events phase
\* can move on at once.
C14_OneEventPerIteration ==
    /\ [][\/ chan' = chan
          \/ Len(chan') = Len(chan) + 1 /\ SubSeq(chan', 1, Len(chan)) = chan
          \/ /\ lpc = "events" /\ lpc' = "input"
             /\ chan # <<>> /\ chan' = Tail(chan)]_vars
    /\ [][lpc' # lpc => <<lpc, lpc'>> \in PhaseOrder]_vars
    /\ []((lpc = "events" /\ chan = <<>> /\ NoneDone) => ENABLED RecvNothing)

\* The loop has consumed "Waiting for stop..." and is in its input phase
\* with three more events queued behind it.
C14_Witness ==
    /\ lpc = "input"
    /\ state = StProcessing(<<"Waiting for stop...">>)
    /\ Len(chan) >= 3
    /\ chan[1].type = "Message" /\ chan[1].msg[1] = "Changing to "

\* A step of the loop: the timer check, the check of the channel, the poll
\* for a key or the quit check.
LoopStep ==
    \/ TimerCheck(FALSE)
    \/ RecvNothing
    \/ RecvInstancesFetched
    \/ RecvBulkOnDemandFetched
    \/ RecvBulkSpotFetched
    \/ RecvInstancesUpdated
    \/ RecvError
    \/ RecvMessage
    \/ NoKey
    \/ QuitCheck

\* A task stands at a send.
Sending(i) == i \in 1..Len(tasks) /\ SendAt(tasks[i]).next # ""

\* C15: the channel never holds more than ChannelCapacity events; when it is
\* full no send is enabled, so a sending task waits, while the next step of
\* the running loop is enabled.
C15_BackpressureOnProducers ==
    /\ Len(chan) <= ChannelCapacity
    /\ (Len(chan) = ChannelCapacity /\ NoneDone)
           => /\ \A i \in 1..Len(tasks) : ~ENABLED TaskSend(i)
              /\ lpc # "exited" => ENABLED LoopStep

\* The channel is full, a task waits at its send, and the loop is about to
\* check the channel.
C15_Witness ==
    /\ Len(chan) = ChannelCapacity
    /\ \E i \in 1..Len(tasks) : Sending(i)
    /\ lpc = "events"

\* C16: the iteration that consumes InstancesUpdated adds exactly one refresh
\* task, and leaves the state List if it was Processing and as it was
\* otherwise.
C16_InstancesUpdatedHandling ==
    [][(/\ lpc = "events" /\ lpc' = "input"
        /\ chan # <<>> /\ Head(chan).type = "InstancesUpdated")
          => /\ tasks' = Append(tasks, RefreshTask)
             /\ state' = (IF state.tag = "Processing" THEN StList ELSE state)]_vars

\* InstancesUpdated was consumed with the reboot dialog open: the dialog is
\* still open and the refresh has been spawned.
C16_Witness ==
    /\ lpc = "input"
    /\ state.tag = "ConfirmReboot"
    /\ tasks # <<>> /\ tasks[Len(tasks)] = RefreshTask
    /\ \A i \in 1..Len(chan) : chan[i].type # "InstancesUpdated"

----------------------------------------------------------------------------
(* Properties of the reboot dialog (SpecTasks).                            *)

\* The step adds exactly one task, of kind `kind`, for instance `id`, that
\* has made no call yet.
SpawnsOne(kind, id) ==
    /\ Len(tasks') = Len(tasks) + 1
    /\ SubSeq(tasks', 1, Len(tasks)) = tasks
    /\ tasks'[Len(tasks')].kind = kind
    /\ tasks'[Len(tasks')].instance_id = id
    /\ tasks'[Len(tasks')].calls = <<>>
    /\ tasks'[Len(tasks')].sent = <<>>

\* C21: in ConfirmReboot(id), y or Enter leads to Processing with exactly one
\* new reboot task for id, f to Processing with exactly one new force-reboot
\* task for id, n or Esc to List with no new task, and every other key
\* leaves the state and the tasks as they were; a key read in the dialog
\* does one of these four things.
C21_ConfirmRebootTransitions ==
    [][(lpc = "input" /\ lpc' = "check" /\ state.tag = "ConfirmReboot")
          => /\ ConfirmYes => /\ state'.tag = "Processing"
                              /\ SpawnsOne("reboot", state.id)
             /\ ConfirmForce => /\ state'.tag = "Processing"
                                /\ SpawnsOne("force_reboot", state.id)
             /\ ConfirmNo => state' = StList /\ tasks' = tasks
             /\ (\E ctrl \in BOOLEAN : IgnoredKey("ConfirmReboot", ctrl))
                    => state' = state /\ tasks' = tasks
             /\ \/ state'.tag = "Processing" /\ SpawnsOne("reboot", state.id)
                \/ state'.tag = "Processing" /\ SpawnsOne("force_reboot", state.id)
                \/ state' = StList /\ tasks' = tasks
                \/ state' = state /\ tasks' = tasks]_vars

\* f was pressed in the dialog of i-1: the forced reboot of i-1 is the only
\* task and has not started.
C21_Witness ==
    /\ lpc = "check"
    /\ state = StProcessing(<<"Forced Rebooting ", "i", "-", "1", "...">>)
    /\ tasks = <<ForceRebootTask(<<"i", "-", "1">>)>>

----------------------------------------------------------------------------
(* Properties of the instance filter as a function (SpecFilter).           *)

\* C22: the visible list is what the filter gives for the fleet and the
\* filter text, and applying the filter with the same text once more, to the
\* fleet or to the visible list itself, gives the same visible list.
C22_FilterIdempotent ==
    /\ FilteredOf(instances, filter) = filtered_instances
    /\ FilteredOf(filtered_instances, filter) = filtered_instances

\* The filter "N" shows three of four instances, the two without a name
\* first, in the order the fleet has them.
C22_Witness ==
    /\ filter = <<"N">>
    /\ instances = <<InstWeb, InstArmMicro, InstDb, InstArm>>
    /\ filtered_instances = <<InstArmMicro, InstArm, InstWeb>>

\* The name the list is ordered by: the empty string for an instance
\* without a name.
DisplayName(i) == IF i.name = None THEN <<>> ELSE i.name[1]

\* C23: the visible list is in ascending order of display name, with the
\* empty filter too: no instance comes after one of a greater name.
C23_VisibleListOrdered ==
    \A j, k \in 1..Len(filtered_instances) :
        j < k => ~StrLess(DisplayName(filtered_instances[k]),
                          DisplayName(filtered_instances[j]))

\* With the empty filter the fleet Web, DB, (no name) is shown as
\* (no name), DB, Web.
C23_Witness ==
    /\ filter = <<>>
    /\ state.tag = "FilterInput"
    /\ instances = <<InstWeb, InstDb, InstArmMicro>>
    /\ filtered_instances = <<InstArmMicro, InstDb, InstWeb>>

----------------------------------------------------------------------------
(* Invariants of the type picker (SpecPicker).                             *)

\* C24: in SelectingType, selected_index is absent or an index of options:
\* 0 <= selected_index < Len(options), with empty options too.
C24_PickerIndexValid ==
    state.tag = "SelectingType"
        => \/ state.selected_index = None
           \/ /\ state.selected_index[1] >= 0
              /\ state.selected_index[1] < Len(state.options)

\* C25: in SelectingType with default mode off, options is in ascending
\* order of on-demand price by the current price cache, types of unknown
\* price last and ties by ascending name.
C25_OptionsPriceSorted ==
    (state.tag = "SelectingType" /\ ~state.default_mode_active)
        => \A j, k \in 1..Len(state.options) :
               j < k => ComesBefore(type_prices, state.options[j], state.options[k])

\* The picker state st has the shape of default mode: the configured default
\* type as input, nothing highlighted, and every type of PickerArch once, in
\* ascending order of name.
DefaultShape(st) ==
    /\ st.input = (IF config.default_instance_type = None THEN <<>>
                   ELSE config.default_instance_type[1])
    /\ st.selected_index = None
    /\ {st.options[k] : k \in 1..Len(st.options)} = Candidates(<<>>)
    /\ \A j, k \in 1..Len(st.options) :
           j < k => StrLess(st.options[j], st.options[k])

----------------------------------------------------------------------------
(* Navigation in the type picker (SpecPicker, SpecNav).                    *)

\* The picker after a navigation key pressed in default mode: the input
\* cleared, default mode off, the options as they were, index idx.
LeftDefaultAt(idx) ==
    /\ state'.tag = "SelectingType"
    /\ state'.input = <<>>
    /\ ~state'.default_mode_active
    /\ state'.options = state.options
    /\ state'.selected_index = Some(idx)

\* C27: in default mode each of Up, Down, PageUp and PageDown clears the
\* input, sets selected_index to 0 and turns default mode off, leaving
\* options as they are; Home does the same, and End does the same with
\* selected_index at the last option.
C27_NavigationOutOfDefaultMode ==
    [][(InDefaultMode /\ lpc = "input")
          => /\ (SelUp \/ SelDown \/ SelPageUp \/ SelPageDown \/ SelHome)
                    => LeftDefaultAt(0)
             /\ (SelEnd /\ state.options # <<>>)
                    => LeftDefaultAt(Len(state.options) - 1)]_vars

\* End pressed in the picker just opened on i-1: the fourth and last option
\* is highlighted, in the alphabetical list.
C27_Witness ==
    /\ lpc = "check"
    /\ state = StSelectingType(<<>>,
                               <<T_c5_large, T_m5_large, T_t3_micro, T_t3a_nano>>,
                               Some(3), FALSE)
    /\ type_prices = <<>>

\* n brought into the range 0..len-1 of a list of len options.
Clamp(n, len) == IF n < 0 \/ len = 0 THEN 0 ELSE IF n > len - 1 THEN len - 1 ELSE n

\* The step moves the highlight by d, clamped, and changes nothing else of
\* the picker; with nothing highlighted it changes nothing.
MovedBy(d) ==
    IF state.selected_index = None THEN state' = state
    ELSE /\ state'.tag = "SelectingType"
         /\ state'.input = state.input
         /\ state'.options = state.options
         /\ state'.default_mode_active = state.default_mode_active
         /\ state'.selected_index =
                Some(Clamp(state.selected_index[1] + d, Len(state.options)))

\* C28: with default mode off, Up and Down move selected_index by 1 and
\* PageUp and PageDown by 20, the result clamped to 0..len-1 without
\* wrap-around; input, options and default_mode_active stay as they are.
C28_NavigationDefaultModeOff ==
    [][(state.tag = "SelectingType" /\ ~state.default_mode_active /\ lpc = "input")
          => /\ SelUp => MovedBy(-1)
             /\ SelDown => MovedBy(1)
             /\ SelPageUp => MovedBy(-20)
             /\ SelPageDown => MovedBy(20)]_vars

\* Of 22 options the 21st is highlighted: a PageDown from the first one has
\* moved by a whole page without reaching the end.
C28_Witness ==
    /\ lpc = "check"
    /\ state.tag = "SelectingType"
    /\ ~state.default_mode_active
    /\ Len(state.options) = 22
    /\ state.selected_index = Some(20)

----------------------------------------------------------------------------
(* Backspace in the type picker (SpecPicker).                              *)

----------------------------------------------------------------------------
(* The successful resize (SpecChannel: every remote call succeeds).        *)

IsPrefix(a, b) == Len(a) <= Len(b) /\ SubSeq(b, 1, Len(a)) = a
IsSuffix(a, b) == Len(a) <= Len(b) /\ SubSeq(b, Len(b) - Len(a) + 1, Len(b)) = a

\* The events of a resize to new_type whose every step succeeds, in the
\* order of emission; the credit-spec message only for a type whose name
\* starts with "t".
RunEvents(new_type) ==
    <<EvMessage(<<"Waiting for stop...">>),
      EvMessage(<<"Changing to ">> \o new_type \o <<"...">>)>>
    \o (IF new_type[1] = "t" THEN <<EvMessage(<<"Setting credit spec...">>)>>
        ELSE <<>>)
    \o <<EvMessage(<<"Starting...">>), EvMessage(<<"Done. Refreshing...">>),
         EvInstancesUpdated>>

\* The events of the workflows, as opposed to those of a refresh or a price
\* fetch.
IsWorkflowEvent(e) == e.type \in {"Message", "InstancesUpdated", "Error"}

\* Task i is a resize that has not sent its InstancesUpdated yet.
Running(i) ==
    i \in 1..Len(tasks) /\ tasks[i].kind = "resize" /\ tasks[i].pc # "done"

\* The resize i runs alone: every other task is a refresh, and the workflow
\* events queued are the last ones it has sent.
Alone(i) ==
    /\ Running(i)
    /\ \A j \in 1..Len(tasks) : j # i => tasks[j].kind = "refresh"
    /\ IsSuffix(SelectSeq(chan, IsWorkflowEvent), tasks[i].sent)

\* What the loop shows of the resize i running alone: the message of the
\* last of its events consumed, and "Stopping id..." before the first.
Shown(i) ==
    LET k == Len(tasks[i].sent) - Len(SelectSeq(chan, IsWorkflowEvent)) IN
    IF k = 0
    THEN StProcessing(<<"Stopping ">> \o tasks[i].instance_id \o <<"...">>)
    ELSE StProcessing(tasks[i].sent[k].msg)

\* A resize emits its events in the order of RunEvents.
EmitsInOrder ==
    \A i \in 1..Len(tasks) :
        tasks[i].kind = "resize" => IsPrefix(tasks[i].sent, RunEvents(tasks[i].new_type))

\* Without a key, Processing is left only by consuming InstancesUpdated,
\* which leads to List and spawns a refresh.
LeftByUpdateOnly ==
    (state.tag = "Processing" /\ lpc # "input" /\ state'.tag # "Processing")
        => /\ lpc = "events" /\ chan # <<>>
           /\ Head(chan).type = "InstancesUpdated"
           /\ state' = StList
           /\ tasks' = Append(tasks, RefreshTask)

\* C30 as stated: a resize whose steps succeed emits its events in order;
\* while it runs and no key is read the state stays Processing; Processing
\* is left by consuming InstancesUpdated, for List and a refresh.
C30_SuccessfulResizeRun ==
    /\ []EmitsInOrder
    /\ [][LeftByUpdateOnly]_vars
    /\ [][(state.tag = "Processing" /\ lpc # "input" /\ \E i \in 1..Len(tasks) : Running(i))
             => state'.tag = "Processing"]_vars

\* C30 for a resize that runs alone, no event of another workflow being
\* queued or sent meanwhile: it emits its events in order, the state shows
\* them one after the other in that order and stays Processing while the
\* resize runs and no key is read; Processing is left by consuming
\* InstancesUpdated, for List and a refresh.
C30_ResizeRunAlone ==
    /\ []EmitsInOrder
    /\ [][LeftByUpdateOnly]_vars
    /\ [](\A i \in 1..Len(tasks) :
             (Alone(i) /\ state.tag = "Processing") => state = Shown(i))
    /\ [][(state.tag = "Processing" /\ lpc # "input" /\ \E i \in 1..Len(tasks) : Alone(i))
             => state'.tag = "Processing"]_vars

\* The resize of i-5 to m5.large, which is not burstable, runs alone: it has
\* sent three messages, none about the credit specification, and the loop
\* shows the third, "Starting...".
C30_Witness ==
    /\ Len(tasks) = 1 /\ Alone(1)
    /\ tasks[1].new_type = T_m5_large
    /\ Len(tasks[1].sent) = 3
    /\ chan = <<>>
    /\ state = StProcessing(<<"Starting...">>)

----------------------------------------------------------------------------
(* The ways out of each mode and out of the loop (SpecKeys).               *)

\* One key press that ends in AppState::List: Esc in FilterInput, in
\* SelectingType, in ConfirmReboot and in Processing.
KeyToList ==
    /\ \/ FilterClose
       \/ SelEsc
       \/ ConfirmNo
       \/ ProcessingDismiss
    /\ state'.tag = "List"

\* A key press that requests quit: q in List, or Ctrl-C in any mode.
QuitKey == ListQuit \/ CtrlC

----------------------------------------------------------------------------
(* The instance cache under overlapping refreshes (SpecRefresh).           *)

\* The loop consumes an event of the given type in this step.
Consumes(type) ==
    /\ lpc = "events" /\ lpc' = "input"
    /\ chan # <<>>
    /\ Head(chan).type = type

\* C32: consuming InstancesFetched makes the instance cache the payload of
\* that event, and the visible list what the unchanged filter text gives for
\* the payload; a step that consumes no InstancesFetched event, a key press
\* included, leaves the instance cache as it is.
C32_WholesaleRefresh ==
    /\ [][Consumes("InstancesFetched")
            => /\ instances' = Head(chan).instances
               /\ filter' = filter
               /\ filtered_instances' = FilteredOf(Head(chan).instances, filter)]_vars
    /\ [][instances' # instances => Consumes("InstancesFetched")]_vars

\* Two refreshes overlapped: the cache holds the fleet of the refresh
\* consumed first, is filtered by "W", and the other fleet waits in the
\* channel.
C32_Witness ==
    /\ instances = <<InstArm, InstWeb>>
    /\ filter = <<"W">>
    /\ filtered_instances = <<InstWeb>>
    /\ Len(chan) = 1
    /\ chan[1].type = "InstancesFetched"
    /\ chan[1].instances = <<InstDb>>

----------------------------------------------------------------------------
(* wait_until_stopped and its place in the resize saga (SpecTasksFair).    *)

\* Some task is inside wait_until_stopped.
Waiting == \E i \in 1..Len(tasks) : tasks[i].pc = "wait"

\* Task i is inside wait_until_stopped and takes a step.
PollStep(i) ==
    /\ i \in 1..Len(tasks)
    /\ tasks[i].pc = "wait"
    /\ Len(tasks') = Len(tasks)
    /\ tasks'[i] # tasks[i]

\* The outcome of the poll that a step of wait_until_stopped has logged.
Polled(i) == tasks'[i].calls[Len(tasks'[i].calls)].res

\* The calls of a resize saga that come after the wait step.
AfterWait ==
    {"modify_instance_attribute", "modify_instance_credit_specification",
     "start_instances"}

\* The poll that made the wait step of a resize saga fail, if any: its
\* position in the log of calls.
FailedPolls(t) ==
    {k \in 1..Len(t.calls) : /\ t.calls[k].op = "describe_instances"
                             /\ t.calls[k].res \in {"error", "timeout"}}

\* C33: a step of wait_until_stopped is one poll; the step returns success
\* exactly when the poll observed "stopped", returns the timeout failure
\* exactly when the poll saw another state after the ceiling, returns the
\* poll's own failure at once, and otherwise polls again, the number of
\* polls staying below the ceiling; the wait always comes to an end.  A
\* resize saga whose wait failed makes no later call, and the one event it
\* sends after the failure is the Error "Wait failed: ..." with the failure.
C33_WaitUntilStopped ==
    /\ [][\A i \in 1..MaxTasks : (PollStep(i) /\ tasks[i].kind = "resize") =>
            /\ Len(tasks'[i].calls) = Len(tasks[i].calls) + 1
            /\ Polled(i) \in {"stopped", "other", "error", "timeout"}
            /\ (tasks'[i].pc = "msg_change") = (Polled(i) = "stopped")
            /\ (tasks'[i].pc = "err_wait") = (Polled(i) \in {"error", "timeout"})
            /\ Polled(i) = "error" => tasks'[i].err = RemoteError
            /\ Polled(i) = "timeout" => tasks'[i].err = TimeoutError
            /\ (tasks'[i].pc = "wait") = (Polled(i) = "other")
            /\ Polled(i) = "other" =>
                  /\ tasks'[i].polls = tasks[i].polls + 1
                  /\ tasks'[i].polls < MaxPolls]_vars
    /\ [](\A i \in 1..Len(tasks) :
            (tasks[i].kind = "resize" /\ FailedPolls(tasks[i]) # {}) =>
                /\ FailedPolls(tasks[i]) = {Len(tasks[i].calls)}
                /\ \/ tasks[i].pc = "err_wait"
                   \/ /\ tasks[i].pc = "done"
                      /\ tasks[i].sent[Len(tasks[i].sent)]
                            = EvError(<<"Wait failed: ">> \o tasks[i].err)
                      /\ tasks[i].sent[Len(tasks[i].sent) - 1]
                            = EvMessage(<<"Waiting for stop...">>))
    /\ Waiting ~> ~Waiting

\* A resize saga has ended after its wait timed out: its last call is the
\* poll, its last event the Error that names the wait step.
C33_Witness ==
    \E i \in 1..Len(tasks) :
        /\ tasks[i].kind = "resize"
        /\ tasks[i].pc = "done"
        /\ tasks[i].calls[Len(tasks[i].calls)] = Call("describe_instances", "timeout")
        /\ \E k \in 1..Len(tasks[i].calls) :
               tasks[i].calls[k] = Call("describe_instances", "other")
        /\ tasks[i].sent[Len(tasks[i].sent)]
              = EvError(<<"Wait failed: ">> \o TimeoutError)

----------------------------------------------------------------------------
(* The target of a resize under refreshes (SpecRefresh).                   *)

\* C34: the picker is opened on the instance i-1 only, so every resize saga
\* that Enter starts is a saga for i-1, whatever refreshes were consumed
\* while the picker was open.
C34_ResizeTargetStable ==
    [][SelEnter => \A i \in 1..Len(tasks') :
                       tasks'[i].kind = "resize" => tasks'[i].instance_id = InstWeb.id]_vars

----------------------------------------------------------------------------
(* The selection of the instance list (SpecRefresh).                       *)

\* C35: the list selection is none, or an index below the number of visible
\* instances.
C35_ListSelectionValid ==
    \/ list_selected = None
    \/ Unwrap(list_selected) < Len(filtered_instances)

----------------------------------------------------------------------------
(* Events and the mode (SpecModes).                                        *)

\* C36: consuming an Error event makes the state Processing with "Error: "
\* and the event's text, consuming a Message event makes it Processing with
\* the message, whatever the state was; nothing of the state before (picker
\* input, options and index, pending reboot id) is part of the new state.
C36_MessageAndErrorOverride ==
    /\ [][Consumes("Error")
            => state' = [tag |-> "Processing",
                         msg |-> <<"Error: ">> \o Head(chan).msg]]_vars
    /\ [][Consumes("Message")
            => state' = [tag |-> "Processing", msg |-> Head(chan).msg]]_vars

\* The Error of a failed stop call has just been consumed and is shown, with
\* the filter text "W" typed while the stop was on its way.
C36_Witness ==
    /\ state = StProcessing(<<"Error: ", "Stop failed: ">> \o RemoteError)
    /\ lpc = "input"
    /\ filter = <<"W">>

----------------------------------------------------------------------------
(* Workflows on one instance (SpecChannel).                                *)

\* Task i is a mutating workflow that has not ended.
Mutating(i) ==
    /\ tasks[i].kind \in {"stop", "start", "reboot", "force_reboot", "resize"}
    /\ tasks[i].pc # "done"

\* C37: no two mutating workflows that have not ended are for the same
\* instance.
C37_OneWorkflowPerInstance ==
    \A i, j \in 1..Len(tasks) :
        (i # j /\ Mutating(i) /\ Mutating(j))
            => tasks[i].instance_id # tasks[j].instance_id

----------------------------------------------------------------------------
(* The quit keys and the rest of the state (SpecKeys).                     *)

\* C38: a key press that requests quit (q in List, Ctrl-C in any mode)
\* leaves the mode and its payload, the filter text and the visible list,
\* and the background tasks as they are.
C38_QuitHasNoSideEffect ==
    [][QuitKey => /\ state' = state
                  /\ filter' = filter
                  /\ filtered_instances' = filtered_instances
                  /\ tasks' = tasks]_vars

----------------------------------------------------------------------------
(* Data events and the mode (SpecModes).                                   *)

\* C40: consuming InstancesFetched, BulkOnDemandFetched or BulkSpotFetched
\* leaves the mode and the filter text as they are; consuming
\* InstancesFetched or BulkSpotFetched leaves the whole state as it is, the
\* fields of SelectingType and the id of ConfirmReboot included.
C40_DataEventsKeepMode ==
    /\ [][(\/ Consumes("InstancesFetched")
           \/ Consumes("BulkOnDemandFetched")
           \/ Consumes("BulkSpotFetched"))
             => (state'.tag = state.tag /\ filter' = filter)]_vars
    /\ [][(Consumes("InstancesFetched") \/ Consumes("BulkSpotFetched"))
             => state' = state]_vars

\* The on-demand prices have arrived in the open picker after the user left
\* default mode: the options are in price order, the picker is still open.
C40_Witness ==
    /\ state.tag = "SelectingType"
    /\ ~state.default_mode_active
    /\ state.options = <<T_m5_large, T_t3_micro, T_t3a_nano, T_c5_large>>
    /\ state.selected_index = Some(0)
    /\ lpc = "input"

----------------------------------------------------------------------------
(* Delivery of events under fair scheduling (SpecChannelFair).             *)

\* SpecChannel with a loop that keeps iterating, remote calls that return,
\* a runtime that runs every task that can run, and a channel that serves
\* every waiting sender (the semaphore of tokio's bounded channel is fair):
\* the step of task i is a remote call or a poll that returns, or a send
\* that completes.
SpecChannelFair ==
    /\ SpecChannel
    /\ WF_vars(LoopStep)
    /\ WF_vars(\E i \in 1..MaxTasks : TaskDrop(i))
    /\ \A i \in 1..MaxTasks :
           SF_vars(\/ RemoteCall(i, TRUE)
                   \/ WaitPoll(i, "stopped", FALSE)
                   \/ ListInstances(i, TRUE, instances)
                   \/ TaskSend(i))

\* The event a workflow ends with: an Error, or InstancesUpdated.
IsFinalEvent(e) == e.type \in {"Error", "InstancesUpdated"}

\* C39: the loop comes to its check of the channel again and again, and
\* each time it leaves that check with the channel non-empty it has consumed
\* the oldest event, so that, the channel being first-in first-out, every
\* event sent is consumed; no task stays unfinished for ever at any place in
\* the list of tasks; and a workflow that has finished has sent its final
\* event last.
C39_EventDeliveryLiveness ==
    /\ []<>(lpc = "events")
    /\ []<>(lpc = "input")
    /\ [][(lpc = "events" /\ lpc' = "input")
             => (chan = <<>> \/ chan' = Tail(chan))]_vars
    /\ \A i \in 1..MaxTasks : []<>(Len(tasks) < i \/ tasks[i].pc = "done")
    /\ [](\A i \in 1..Len(tasks) :
            (tasks[i].pc = "done" /\ tasks[i].kind # "refresh")
                => /\ tasks[i].sent # <<>>
                   /\ IsFinalEvent(tasks[i].sent[Len(tasks[i].sent)]))

\* A saga has finished with InstancesUpdated as its last event, sent into a
\* channel that was full while another saga waits at a send.
C39_Witness ==
    /\ Len(tasks) = 2
    /\ tasks[1].pc = "done"
    /\ tasks[1].kind = "resize"
    /\ tasks[1].sent[Len(tasks[1].sent)] = EvInstancesUpdated
    /\ Len(chan) = ChannelCapacity
    /\ Sending(2)

====
